---------------------------- MODULE Spec2Model ----------------------------
(***************************************************************************)
(* A model of the IRI cohort pipeline:                                     *)
(*   scripts/02_build_cohort.py   (cycles 2015-2016 and 2017-2020, ALM)    *)
(*   scripts/02_harmonize_iri.py  (cycles 2011-2012, 2013-2014, 2017-2020, *)
(*                                 grip strength)                          *)
(*   scripts/03_link_mortality.py (reads the export of 02_build_cohort.py) *)
(*                                                                         *)
(* A pandas DataFrame is a record [cols, rows]: cols is the set of column  *)
(* names, rows the sequence of rows, each a function from cols to a cell.  *)
(* A cell is an integer; NULL stands for NaN.  Real-valued results         *)
(* (logarithms, z-scores, the index) are kept in fixed point.              *)
(***************************************************************************)
EXTENDS Integers, Sequences, FiniteSets, TLC

VARIABLES
    \* ---- process_cycle, one loop iteration at a time (SpecMerge) ----
    m_script,     \* which script's process_cycle runs
    m_dir,        \* the cycle directory: the files in glob order
    m_base,       \* the demographic table as loaded
    m_df,         \* df, the table accumulated so far
    m_i,          \* index of the next entry of the component list
    m_cycle,      \* the cycle being processed
    m_pc,         \* "start" | "loop" | "done" | "error"
    m_last,       \* what the last iteration did, and the table before it
    m_hist        \* the files merged so far, in order

varsMerge == <<m_script, m_dir, m_base, m_df, m_i, m_cycle, m_pc, m_last, m_hist>>

VARIABLES
    \* ---- a run of main, then of 03_link_mortality.py (Spec) ----
    main_script,  \* "build_cohort" | "harmonize"
    pc,           \* the next step of the run
    ci,           \* index of the next cycle of the cycle list
    dirs,         \* the cycle directories read so far (the run's input)
    all_data,     \* main's all_data: the non-empty cycle tables
    combined,     \* main's combined
    exported,     \* the table written to iri_cohort*.parquet
    err,          \* the exception that ended the run ("none": none)
    warned,       \* the files load_xpt warned about
    mort_files,   \* the mortality files read by 03_link_mortality.py
    linked        \* the table written to iri_cohort_mortality.parquet

varsMain == <<main_script, pc, ci, dirs, all_data, combined, exported, err, warned,
              mort_files, linked>>

vars == <<varsMerge, varsMain>>

-----------------------------------------------------------------------------
(* Cells and tables *)

NULL == -999

EmptyDF == [cols |-> {}, rows |-> <<>>]

\* A pandas object holds its values, not the rule that computes them: the
\* sequence, and the row, with every element evaluated (both are identities)
Series(s) == s \o <<>>
Row(r) == r @@ <<>>

\* len(df)
Len_df(df) == Len(df.rows)

RECURSIVE FlattenSeq(_)
FlattenSeq(ss) == IF ss = <<>> THEN <<>> ELSE Head(ss) \o FlattenSeq(Tail(ss))

RECURSIVE SelectRows(_, _, _)
\* the rows of a sequence whose column c equals v, in order
SelectRows(rows, c, v) ==
    IF rows = <<>> THEN <<>>
    ELSE IF Head(rows)[c] = v
         THEN <<Head(rows)>> \o SelectRows(Tail(rows), c, v)
         ELSE SelectRows(Tail(rows), c, v)

-----------------------------------------------------------------------------
(* df.merge(comp_df, on='SEQN', how='left', suffixes=('', f'_{pattern}')) *)

Suffixed(c, pattern) == c \o "_" \o pattern

\* a plausible bug: the incoming column keeps its name and replaces the old one
MergedNameOverwrite(left, c, pattern) == c

\* The name under which the right table's column c appears in the result
MergedName(left, c, pattern) ==
    IF c \in left.cols /\ c # "SEQN" THEN Suffixed(c, pattern) ELSE c

MergedCols(left, right, pattern) ==
    left.cols \cup {MergedName(left, c, pattern) : c \in right.cols \ {"SEQN"}}

\* One left row joined with one right row (or with no row: r = NULL-row)
JoinRow(left, right, pattern, l, r, matched) ==
    [c \in {MergedName(left, rc, pattern) : rc \in right.cols \ {"SEQN"}} |->
        LET rc == CHOOSE rc \in right.cols \ {"SEQN"} :
                            MergedName(left, rc, pattern) = c
        IN  IF matched THEN r[rc] ELSE NULL]
    @@ l

\* One result row per matching right row ms[k], in the right table's order
JoinMatches(left, right, pattern, l, ms) ==
    Series([k \in 1..Len(ms) |-> JoinRow(left, right, pattern, l, ms[k], TRUE)])

\* a plausible bug: an inner join, which drops the unmatched base rows
JoinedRowsInner(left, right, pattern, l) ==
    JoinMatches(left, right, pattern, l, SelectRows(right.rows, "SEQN", l["SEQN"]))

\* The result rows for one left row: one per matching right row, in the
\* right table's order; a single NULL-filled row when nothing matches.
JoinedRows(left, right, pattern, l) ==
    IF SelectRows(right.rows, "SEQN", l["SEQN"]) = <<>>
    THEN <<JoinRow(left, right, pattern, l, l, FALSE)>>
    ELSE JoinMatches(left, right, pattern, l,
                     SelectRows(right.rows, "SEQN", l["SEQN"]))

Merge(left, right, pattern) ==
    [cols |-> MergedCols(left, right, pattern),
     rows |-> FlattenSeq([k \in 1..Len(left.rows) |->
                            JoinedRows(left, right, pattern, left.rows[k])])]

-----------------------------------------------------------------------------
(* Files and directories *)

\* A file of a cycle directory: its name (a sequence of characters), whether
\* pd.read_sas can decode it, and the table it then yields.
NoFile == [name |-> <<>>, ok |-> FALSE, df |-> EmptyDF]

\* load_xpt: the decoded table, or an empty DataFrame after a warning
load_xpt(file) == IF file.ok THEN file.df ELSE EmptyDF

\* fnmatch of "*pattern*": pattern occurs in name
Contains(name, pat) ==
    \E k \in 0..(Len(name) - Len(pat)) : SubSeq(name, k + 1, k + Len(pat)) = pat

Lower(ch) ==
    CASE ch = "A" -> "a" [] ch = "B" -> "b" [] ch = "C" -> "c" [] ch = "D" -> "d"
      [] ch = "E" -> "e" [] ch = "G" -> "g" [] ch = "H" -> "h" [] ch = "I" -> "i"
      [] ch = "L" -> "l" [] ch = "M" -> "m" [] ch = "O" -> "o" [] ch = "P" -> "p"
      [] ch = "Q" -> "q" [] ch = "R" -> "r" [] ch = "S" -> "s" [] ch = "T" -> "t"
      [] ch = "U" -> "u" [] ch = "X" -> "x" [] ch = "Y" -> "y"
      [] OTHER -> ch

LowerSeq(s) == Series([k \in 1..Len(s) |-> Lower(s[k])])

\* cycle_dir.glob(f"*{pattern}*"): the matching files, in directory order
Glob(dir, pat) == SelectSeq(dir, LAMBDA f : Contains(f.name, pat))

FirstMatch(matches) == IF matches # <<>> THEN matches[1] ELSE NoFile

find_file(dir, pat) == FirstMatch(Glob(dir, pat))

\* 02_harmonize_iri.py find_file: the pattern, then the pattern in lower case
find_file_h(dir, pat) == FirstMatch(Glob(dir, pat) \o Glob(dir, LowerSeq(pat)))

\* The characters of the component patterns, for the glob
PatternChars ==
    [DEMO |-> <<"D","E","M","O">>, MGX |-> <<"M","G","X">>,
     HSCRP |-> <<"H","S","C","R","P">>, BIOPRO |-> <<"B","I","O","P","R","O">>,
     DXX |-> <<"D","X","X">>, BMX |-> <<"B","M","X">>, BPX |-> <<"B","P","X">>,
     BPXO |-> <<"B","P","X","O">>, BPQ |-> <<"B","P","Q">>,
     DIQ |-> <<"D","I","Q">>, GHB |-> <<"G","H","B">>, GLU |-> <<"G","L","U">>,
     TCHOL |-> <<"T","C","H","O","L">>, HDL |-> <<"H","D","L">>,
     TRIGLY |-> <<"T","R","I","G","L","Y">>, SMQ |-> <<"S","M","Q">>,
     PAQ |-> <<"P","A","Q">>, MCQ |-> <<"M","C","Q">>]

\* A component pattern: its name and its characters
Pat(name) == [name |-> name, chars |-> PatternChars[name]]

\* 02_build_cohort.py process_cycle: components
components ==
    <<Pat("HSCRP"), Pat("BIOPRO"), Pat("DXX"), Pat("BMX"), Pat("BPX"),
      Pat("BPXO"), Pat("BPQ"), Pat("DIQ"), Pat("GHB"), Pat("GLU"),
      Pat("TCHOL"), Pat("HDL"), Pat("TRIGLY"), Pat("SMQ"), Pat("MCQ")>>

\* 02_harmonize_iri.py process_cycle: file_patterns
file_patterns(is_prepandemic) ==
    <<Pat("MGX"), Pat("HSCRP"), Pat("BIOPRO"), Pat("BMX"),
      IF ~is_prepandemic THEN Pat("BPX") ELSE Pat("BPXO"),
      Pat("BPQ"), Pat("DIQ"), Pat("GHB"), Pat("GLU"), Pat("TCHOL"), Pat("HDL"),
      Pat("TRIGLY"), Pat("SMQ"), Pat("PAQ"), Pat("MCQ")>>

-----------------------------------------------------------------------------
(* process_cycle *)

\* The cycles, by the year their name starts with ("2017-2020" is 2017);
\* is_prepandemic = "2017" in cycle
cycles_build == <<2015, 2017>>
cycles_harmonize == <<2011, 2013, 2017>>

is_prepandemic_of(cycle) == cycle = 2017

PatternsOf(script, cycle) ==
    IF script = "build_cohort" THEN components
    ELSE file_patterns(is_prepandemic_of(cycle))

FindFileOf(script, dir, pat) ==
    IF script = "build_cohort" THEN find_file(dir, pat.chars)
    ELSE find_file_h(dir, pat.chars)

\* df[col] = v for every row
WithColumn(df, col, v) ==
    [cols |-> df.cols \cup {col},
     rows |-> Series([k \in 1..Len(df.rows) |-> (col :> v) @@ df.rows[k]])]

\* One iteration of the component loop of process_cycle, for the file found
\* and the table loaded from it.  err is the exception the iteration raises
\* ("none": it raises nothing); warned says whether load_xpt printed its
\* warning.
MergeLoaded(df, pat, file_path, comp_df) ==
    IF file_path = NoFile
    THEN [df |-> df, err |-> "none", found |-> FALSE, merged |-> FALSE,
          warned |-> FALSE, comp |-> EmptyDF, pat |-> pat.name, file |-> <<>>]
    ELSE IF ~("SEQN" \in comp_df.cols /\ Len_df(comp_df) > 0)
    THEN [df |-> df, err |-> "none", found |-> TRUE, merged |-> FALSE,
          warned |-> ~file_path.ok, comp |-> comp_df, pat |-> pat.name,
          file |-> file_path.name]
    ELSE IF "SEQN" \notin df.cols
    THEN [df |-> df, err |-> "KeyError: SEQN", found |-> TRUE, merged |-> FALSE,
          warned |-> FALSE, comp |-> comp_df, pat |-> pat.name,
          file |-> file_path.name]
    ELSE [df |-> Merge(df, comp_df, pat.name), err |-> "none", found |-> TRUE,
          merged |-> TRUE, warned |-> FALSE, comp |-> comp_df, pat |-> pat.name,
          file |-> file_path.name]

MergeFound(df, pat, file_path) == MergeLoaded(df, pat, file_path, load_xpt(file_path))

MergeStep(script, df, files, pat) ==
    MergeFound(df, pat, FindFileOf(script, files, pat))

\* df['cycle'] = cycle (and, in 02_harmonize_iri.py, df['is_prepandemic'])
TagCycle(script, df, cycle) ==
    IF script = "build_cohort" THEN WithColumn(df, "cycle", cycle)
    ELSE WithColumn(WithColumn(df, "cycle", cycle), "is_prepandemic",
                    IF is_prepandemic_of(cycle) THEN 1 ELSE 0)

-----------------------------------------------------------------------------
(* process_cycle, one loop iteration per step *)

\* Number of rows of the demographic table
NBase == 2

F_DEMO_I   == <<"D","E","M","O","_","I">>
F_demo_i   == <<"d","e","m","o","_","i">>
F_GLU_I    == <<"G","L","U","_","I">>
F_TRIGLY_I == <<"T","R","I","G","L","Y","_","I">>
F_P_BPXO   == <<"P","_","B","P","X","O">>

M_DemoTable ==
    [cols |-> {"SEQN", "RIDAGEYR"},
     rows |-> [k \in 1..NBase |-> [SEQN |-> k, RIDAGEYR |-> 40]]]

\* A component table: one row per entry of ids, the cells of file number n
M_CompTable(cols, n, ids) ==
    [cols |-> {"SEQN"} \cup cols,
     rows |-> [k \in 1..Len(ids) |->
                 [c \in {"SEQN"} \cup cols |->
                    IF c = "SEQN" THEN ids[k] ELSE 10 * n + k]]]

\* The identifiers of a component table's rows: every base subject once; one
\* base subject and one subject who is not in the base; one subject twice
M_RowIds == {[k \in 1..NBase |-> NBase + 1 - k], <<1, NBase + 1>>, <<1, 1>>}

M_Opts == {<<"absent">>, <<"corrupt">>} \cup {<<"ok", ids>> : ids \in M_RowIds}

M_File(name, cols, n, opt) ==
    IF opt[1] = "absent" THEN <<>>
    ELSE IF opt[1] = "corrupt" THEN <<[name |-> name, ok |-> FALSE, df |-> EmptyDF]>>
    ELSE <<[name |-> name, ok |-> TRUE, df |-> M_CompTable(cols, n, opt[2])]>>

M_Demo(opt) ==
    IF opt = "absent" THEN <<>>
    ELSE IF opt = "corrupt" THEN <<[name |-> F_DEMO_I, ok |-> FALSE, df |-> EmptyDF]>>
    ELSE IF opt = "lower" THEN <<[name |-> F_demo_i, ok |-> TRUE, df |-> M_DemoTable]>>
    ELSE <<[name |-> F_DEMO_I, ok |-> TRUE, df |-> M_DemoTable]>>

M_Idle == [df |-> EmptyDF, err |-> "none", found |-> FALSE, merged |-> FALSE,
           warned |-> FALSE, comp |-> EmptyDF, pat |-> "", file |-> <<>>,
           before |-> EmptyDF, again |-> FALSE]

\* the run of main is not part of this specification
MainOff ==
    /\ main_script = "" /\ pc = "off" /\ ci = 0 /\ dirs = <<>> /\ all_data = <<>>
    /\ combined = EmptyDF /\ exported = EmptyDF /\ err = "none" /\ warned = {}
    /\ mort_files = <<>> /\ linked = EmptyDF

M_Init ==
    /\ MainOff
    /\ m_script \in {"build_cohort", "harmonize"}
    /\ m_cycle \in {cycles_build[k] : k \in DOMAIN cycles_build}
                   \cup {cycles_harmonize[k] : k \in DOMAIN cycles_harmonize}
    /\ m_script = "build_cohort" => \E k \in DOMAIN cycles_build : cycles_build[k] = m_cycle
    /\ m_script = "harmonize" =>
           \E k \in DOMAIN cycles_harmonize : cycles_harmonize[k] = m_cycle
    /\ \E d \in {"absent", "corrupt", "lower", "ok"}, g, t, b \in M_Opts :
          m_dir = M_Demo(d)
                  \o M_File(F_GLU_I, {"WTSAF2YR", "LBXGLU"}, 1, g)
                  \o M_File(F_TRIGLY_I, {"WTSAF2YR", "LBXTR"}, 2, t)
                  \o M_File(F_P_BPXO, {"BPXOSY1", "BPXODI1"}, 3, b)
    /\ m_base = EmptyDF
    /\ m_df = EmptyDF
    /\ m_i = 1
    /\ m_pc = "start"
    /\ m_last = M_Idle
    /\ m_hist = <<>>

\* process_cycle up to the component loop: find and load the DEMO file
M_LoadDemo ==
    /\ m_pc = "start"
    /\ LET demo_file == FindFileOf(m_script, m_dir, Pat("DEMO"))
       IN  IF demo_file = NoFile
           THEN /\ m_pc' = "done"
                /\ UNCHANGED <<m_df, m_base>>
           ELSE /\ m_pc' = "loop"
                /\ m_df' = load_xpt(demo_file)
                /\ m_base' = load_xpt(demo_file)
    /\ UNCHANGED <<m_script, m_dir, m_i, m_cycle, m_last, m_hist>>
    /\ UNCHANGED varsMain

\* one iteration of "for pattern, desc in components"
M_Iterate ==
    /\ m_pc = "loop"
    /\ m_i <= Len(PatternsOf(m_script, m_cycle))
    /\ LET r == MergeStep(m_script, m_df, m_dir, PatternsOf(m_script, m_cycle)[m_i])
           again == \E k \in DOMAIN m_hist : m_hist[k] = r.file
       IN  /\ m_last' = [df |-> r.df, err |-> r.err, found |-> r.found,
                         merged |-> r.merged, warned |-> r.warned, comp |-> r.comp,
                         pat |-> r.pat, file |-> r.file, before |-> m_df,
                         again |-> r.merged /\ again]
           /\ m_df' = r.df
           /\ m_pc' = IF r.err = "none" THEN "loop" ELSE "error"
           /\ m_hist' = IF r.merged THEN Append(m_hist, r.file) ELSE m_hist
    /\ m_i' = m_i + 1
    /\ UNCHANGED <<m_script, m_dir, m_base, m_cycle>>
    /\ UNCHANGED varsMain

\* the end of process_cycle: the cycle tag
M_Return ==
    /\ m_pc = "loop"
    /\ m_i > Len(PatternsOf(m_script, m_cycle))
    /\ m_df' = TagCycle(m_script, m_df, m_cycle)
    /\ m_pc' = "done"
    /\ m_last' = M_Idle
    /\ UNCHANGED <<m_script, m_dir, m_base, m_i, m_cycle, m_hist>>
    /\ UNCHANGED varsMain

M_Next == M_LoadDemo \/ M_Iterate \/ M_Return

SpecMerge == M_Init /\ [][M_Next]_vars

-----------------------------------------------------------------------------
(* Properties of process_cycle's merges (SpecMerge) *)

Proj(row, cols) == [c \in cols |-> row[c]]

UniqueIds(df) ==
    \A i, j \in 1..Len(df.rows) : i # j => df.rows[i]["SEQN"] # df.rows[j]["SEQN"]

\* The table of the file named name in the directory
M_TableOf(name) ==
    (CHOOSE f \in {m_dir[k] : k \in DOMAIN m_dir} : f.name = name).df

\* Every row of df restricted to the columns of old is a row of old and every
\* row of old is the restriction of a row of df
SameRowsOn(df, old) ==
    /\ old.cols \subseteq df.cols
    /\ \A j \in 1..Len(df.rows) :
          \E k \in 1..Len(old.rows) : Proj(df.rows[j], old.cols) = old.rows[k]
    /\ \A k \in 1..Len(old.rows) :
          \E j \in 1..Len(df.rows) : Proj(df.rows[j], old.cols) = old.rows[k]

\* df has the rows of old, one for one and in order, on the columns of old
SameSeqOn(df, old) ==
    /\ old.cols \subseteq df.cols
    /\ Len(df.rows) = Len(old.rows)
    /\ \A k \in 1..Len(old.rows) : Proj(df.rows[k], old.cols) = old.rows[k]

\* C4: while and after process_cycle left-joins the component tables, the
\* merged table holds every base row and only base rows (on the base
\* columns); a row whose identifier is not in the component just merged has
\* NULL in each column that component brought; and when every merged
\* component has at most one row per identifier, the merged table has
\* exactly the base table's rows, in order.
C4_BaseRowsPreserved ==
    m_pc \in {"loop", "done"} =>
        /\ SameRowsOn(m_df, m_base)
        /\ m_last.merged =>
              \A j \in 1..Len(m_df.rows) :
                 (SelectRows(m_last.comp.rows, "SEQN", m_df.rows[j]["SEQN"]) = <<>>) =>
                     \A rc \in m_last.comp.cols \ {"SEQN"} :
                        m_df.rows[j][MergedName(m_last.before, rc, m_last.pat)] = NULL
        /\ (\A k \in DOMAIN m_hist : UniqueIds(M_TableOf(m_hist[k])))
              => SameSeqOn(m_df, m_base)

\* C4 witness: the cycle is done after two or more merges, one of them of a
\* component without a row for some base subject, and has the base's rows
C4_Witness ==
    /\ m_pc = "done"
    /\ Len(m_hist) >= 2
    /\ Len(m_df.rows) = NBase
    /\ \E j \in 1..Len(m_df.rows) : m_df.rows[j]["SEQN"] = NBase
                                     /\ "LBXGLU" \in m_df.cols
                                     /\ m_df.rows[j]["LBXGLU"] = NULL
    /\ \E j \in 1..Len(m_df.rows) : "LBXTR" \in m_df.cols /\ m_df.rows[j]["LBXTR"] # NULL

\* C5: a merge of a component that has a non-key column whose name is in
\* the accumulated table leaves every column of the accumulated table under
\* its name with its values, and adds the incoming column under the name
\* suffixed with the component's pattern, holding the component's values.
C5_CollisionKeepsExisting ==
    m_last.merged =>
        /\ SameRowsOn(m_df, m_last.before)
        /\ UniqueIds(m_last.comp) => SameSeqOn(m_df, m_last.before)
        /\ \A rc \in m_last.comp.cols \ {"SEQN"} :
              rc \in m_last.before.cols =>
                 /\ Suffixed(rc, m_last.pat) \in m_df.cols \ m_last.before.cols
                 /\ \A j \in 1..Len(m_df.rows) :
                       LET ms == SelectRows(m_last.comp.rows, "SEQN", m_df.rows[j]["SEQN"])
                           v == m_df.rows[j][Suffixed(rc, m_last.pat)]
                       IN  IF ms = <<>> THEN v = NULL
                           ELSE \E k \in 1..Len(ms) : ms[k][rc] = v

\* C5 witness: TRIGLY has just been merged onto a table that already had
\* WTSAF2YR from GLU, and some row differs in the two columns
C5_Witness ==
    /\ m_last.merged
    /\ m_last.pat = "TRIGLY"
    /\ "WTSAF2YR" \in m_last.before.cols
    /\ \E j \in 1..Len(m_df.rows) :
          /\ m_df.rows[j]["WTSAF2YR"] # NULL
          /\ m_df.rows[j]["WTSAF2YR_TRIGLY"] # NULL
          /\ m_df.rows[j]["WTSAF2YR"] # m_df.rows[j]["WTSAF2YR_TRIGLY"]

\* C6: when the file just merged had already been merged under another
\* pattern, every non-key column of the file is in the result twice, under
\* its name and under the suffixed name, and the columns of the first merge
\* keep their values.
C6_SecondMergeDetectable ==
    m_last.again =>
        /\ \A rc \in m_last.comp.cols \ {"SEQN"} :
              /\ rc \in m_last.before.cols
              /\ rc \in m_df.cols
              /\ Suffixed(rc, m_last.pat) \in m_df.cols
              /\ Suffixed(rc, m_last.pat) \notin m_last.before.cols
        /\ SameRowsOn(m_df, m_last.before)
        /\ UniqueIds(m_last.comp) =>
              /\ SameSeqOn(m_df, m_last.before)
              /\ \A j \in 1..Len(m_df.rows) :
                    \A rc \in m_last.comp.cols \ {"SEQN"} :
                       m_df.rows[j][Suffixed(rc, m_last.pat)] = m_df.rows[j][rc]

\* C6 witness: 02_build_cohort.py has merged the BPXO file of a cycle under
\* "BPX" and again under "BPXO"
C6_Witness ==
    /\ m_script = "build_cohort"
    /\ m_last.again
    /\ m_last.pat = "BPXO"
    /\ m_last.file = F_P_BPXO
    /\ "BPXOSY1_BPXO" \in m_df.cols
    /\ \E j \in 1..Len(m_df.rows) : m_df.rows[j]["BPXOSY1"] # NULL

-----------------------------------------------------------------------------
(* Columns *)

\* df[name] as a sequence of cells
Col(df, name) == Series([k \in 1..Len(df.rows) |-> df.rows[k][name]])

\* pd.Series([v] * len(df))
Const(df, v) == Series([k \in 1..Len(df.rows) |-> v])

\* df.get(name, default)
Get(df, name, default) == IF name \in df.cols THEN Col(df, name) ELSE default

\* df[name] = series
SetCol(df, name, series) ==
    [cols |-> df.cols \cup {name},
     rows |-> Series([k \in 1..Len(df.rows) |-> (name :> series[k]) @@ df.rows[k]])]

\* a plausible bug: every column read with a default, none raising
FirstMissingNone(df, names) == 0

\* The first column of a list that the table lacks (0: none)
FirstMissing(df, names) ==
    IF \A i \in 1..Len(names) : names[i] \in df.cols THEN 0
    ELSE CHOOSE i \in 1..Len(names) :
            /\ names[i] \notin df.cols
            /\ \A j \in 1..(i - 1) : names[j] \in df.cols

\* df[name] of the first name the table lacks raises KeyError(name)
KeyErrorOf(df, names) ==
    IF FirstMissing(df, names) = 0 THEN "none"
    ELSE "KeyError: " \o names[FirstMissing(df, names)]

\* pd.concat(all_data, ignore_index=True): the union of the columns, NaN
\* where a table lacks a column
RECURSIVE AllCols(_)
AllCols(tables) ==
    IF tables = <<>> THEN {} ELSE Head(tables).cols \cup AllCols(Tail(tables))

Concat(tables) ==
    LET cols == AllCols(tables)
        widen(t) == [k \in 1..Len(t.rows) |->
                        t.rows[k] @@ [c \in cols \ t.cols |-> NULL]]
    IN  [cols |-> cols,
         rows |-> FlattenSeq([i \in 1..Len(tables) |-> widen(tables[i])])]

-----------------------------------------------------------------------------
(* Arithmetic.  Measurements and logarithms are in tenths (hs-CRP in mg/L, *)
(* albumin in g/dL, masses in kg), heights in cm; z-scores and the index   *)
(* are in hundredths.                                                      *)
(* NULL is NaN: it propagates through arithmetic and fails comparisons.    *)

RECURSIVE ISqrtBetween(_, _, _)
\* the r in lo..hi with r*r <= n < (r+1)*(r+1), by bisection
ISqrtBetween(n, lo, hi) ==
    IF lo >= hi THEN lo
    ELSE LET mid == (lo + hi + 1) \div 2
         IN  IF mid * mid <= n THEN ISqrtBetween(n, mid, hi)
             ELSE ISqrtBetween(n, lo, mid - 1)

ISqrt(n) == ISqrtBetween(n, 0, 46340)

RECURSIVE SumSeq(_)
SumSeq(s) == IF s = <<>> THEN 0 ELSE Head(s) + SumSeq(Tail(s))

RECURSIVE DropNull(_)
\* series.dropna()
DropNull(s) ==
    IF s = <<>> THEN <<>>
    ELSE IF Head(s) = NULL THEN DropNull(Tail(s))
         ELSE <<Head(s)>> \o DropNull(Tail(s))

\* np.log of a measurement given in tenths, in tenths: log of a
\* non-positive number is not a number (np.log(0) is -inf, but the callers
\* replace 0 by NaN first)
LogTable ==
    [v \in {5, 10, 20, 30, 50, 80, 120, 150, 200, 250} |->
        CASE v = 5 -> -7 [] v = 10 -> 0 [] v = 20 -> 7 [] v = 30 -> 11
          [] v = 50 -> 16 [] v = 80 -> 21 [] v = 120 -> 25 [] v = 150 -> 27
          [] v = 200 -> 30 [] v = 250 -> 32]

np_log(v) == IF v = NULL \/ v <= 0 THEN NULL ELSE LogTable[v]

\* n*n times the sum of the squared deviations of xs from their mean
SumSqDev(xs, n, sum) ==
    SumSeq([k \in 1..n |-> (n * xs[k] - sum) * (n * xs[k] - sum)])

\* The statistics of the values xs: how many, their sum, their deviations
StatsOf(xs) ==
    [n |-> Len(xs), sum |-> SumSeq(xs), ss |-> SumSqDev(xs, Len(xs), SumSeq(xs))]

\* series.mean() and series.std() skip NaN
Stats(series) == StatsOf(DropNull(series))

\* series.std() (ddof = 1) times 10 * n; NULL for fewer than two values
StdOf(st) == IF st.n < 2 THEN NULL ELSE ISqrt((st.ss * 100) \div (st.n - 1))

\* d / sd in hundredths, d being n times the deviation from the mean and sd
\* 10 * n times the std; 0/0 and anything over NaN are NaN.  A zero std has
\* every deviation zero, so no division yields an infinity.
Scaled(d, sd) ==
    IF sd = NULL \/ sd = 0 THEN NULL
    ELSE IF d >= 0 THEN (d * 1000) \div sd ELSE -((-d * 1000) \div sd)

\* (x - mean) / std in hundredths
ZWith(x, st, sd) == IF x = NULL THEN NULL ELSE Scaled(st.n * x - st.sum, sd)

ZScore(x, st) == ZWith(x, st, StdOf(st))

\* (series - mean) / std for the statistics st
ZAllWith(series, st, sd) == Series([k \in 1..Len(series) |-> ZWith(series[k], st, sd)])

ZAll(series, st) == ZAllWith(series, st, StdOf(st))

\* a plausible bug: a sum that skips NaN (as Series.sum does)
Add3SkipNa(a, b, c) ==
    IF a = NULL /\ b = NULL /\ c = NULL THEN NULL
    ELSE (IF a = NULL THEN 0 ELSE a) + (IF b = NULL THEN 0 ELSE b)
         + (IF c = NULL THEN 0 ELSE c)

\* NaN-propagating sum of three cells
Add3(a, b, c) == IF a = NULL \/ b = NULL \/ c = NULL THEN NULL ELSE a + b + c

Neg(a) == IF a = NULL THEN NULL ELSE -a

-----------------------------------------------------------------------------
(* pd.qcut(series, q=4, labels=[...]) *)

RECURSIVE Insert(_, _)
Insert(x, s) ==
    IF s = <<>> THEN <<x>>
    ELSE IF x <= Head(s) THEN <<x>> \o s
         ELSE <<Head(s)>> \o Insert(x, Tail(s))

RECURSIVE Sort(_)
Sort(s) == IF s = <<>> THEN <<>> ELSE Insert(Head(s), Sort(Tail(s)))

\* Four times the k-th quartile (k in 0..4) of the values xs (sorted, not
\* empty), by linear interpolation between the neighbouring values
Edge4(xs, k) ==
    LET pos == k * (Len(xs) - 1)
        lo == pos \div 4
        r == pos % 4
    IN  IF r = 0 THEN 4 * xs[lo + 1]
        ELSE 4 * xs[lo + 1] + r * (xs[lo + 2] - xs[lo + 1])

\* The quartiles of the sorted values xs
EdgesOf(xs) ==
    IF xs = <<>> THEN Row([k \in 0..4 |-> NULL])
    ELSE Row([k \in 0..4 |-> Edge4(xs, k)])

\* The bin edges of a series: the quartiles of its values, NaN dropped
Edges(series) == EdgesOf(Sort(DropNull(series)))

Duplicated(e) == \E i, j \in 0..4 : i # j /\ e[i] = e[j]

\* qcut raises ValueError("Bin edges must be unique") when two edges are
\* equal, as they all are (NaN) for a series without a value
QcutRaises(series) == Duplicated(Edges(series))

\* a plausible bug: a value on a cut point goes to the upper bucket
BucketUpper(e, x) ==
    IF x = NULL THEN NULL
    ELSE IF 4 * x = e[4] THEN 4
    ELSE Cardinality({k \in 0..4 : e[k] <= 4 * x})

\* The bucket 1..4 of x for edges e: the k with e[k-1] < x <= e[k], the
\* lowest edge included in bucket 1; no bucket for NaN
Bucket(e, x) ==
    IF x = NULL THEN NULL
    ELSE IF 4 * x = e[0] THEN 1
    ELSE Cardinality({k \in 0..4 : e[k] < 4 * x})

\* The labels of the cells of a series for the edges e
Buckets(series, e) == Series([k \in 1..Len(series) |-> Bucket(e, series[k])])

\* The labels qcut gives a series (when it does not raise): the edges are
\* taken from the series it is given
Qcut(series) == Buckets(series, Edges(series))

-----------------------------------------------------------------------------
(* 02_build_cohort.py: calculate_alm, build_iri_cohort *)

NaNs(df) == Const(df, NULL)

\* row-wise df[cols].sum(axis=1): NaN counts as 0, also when every cell is NaN
RowSumSkipNa(df, cols) ==
    Series([k \in 1..Len(df.rows) |->
        SumSeq([i \in 1..Len(cols) |->
                  IF df.rows[k][cols[i]] = NULL THEN 0 ELSE df.rows[k][cols[i]]])])

alm_cols == <<"DXDLALE", "DXDRALE", "DXDLLLE", "DXDRLLE">>

\* calculate_alm: the limb sum in kg when the four columns exist, else NaN
calculate_alm(df) ==
    IF \A i \in 1..4 : alm_cols[i] \in df.cols
    THEN RowSumSkipNa(df, alm_cols)
    ELSE NaNs(df)

\* alm_kg / height_m ** 2, in tenths, for alm in tenths of kg and height in cm
AlmiOf(alm, cm) ==
    IF alm = NULL \/ cm = NULL \/ cm = 0 THEN NULL ELSE (alm * 10000) \div (cm * cm)

\* a plausible bug: the mean and std taken before the last row was appended
PartialZ(series) ==
    ZAll(series, Stats([k \in 1..Len(series) |->
                          IF k < Len(series) THEN series[k] ELSE NULL]))

\* (series - series.mean()) / series.std()
PooledZ(series) == ZAll(series, Stats(series))

\* The cells of series in the rows where sex has value s, NaN elsewhere
Masked(series, sex, s) ==
    Series([k \in 1..Len(series) |-> IF sex[k] = s THEN series[k] ELSE NULL])

\* df['z'] = np.nan, then df.loc[sex == 1, 'z'] = z1 and df.loc[sex == 2, 'z'] = z2
BySex(sex, z1, z2) ==
    Series([k \in 1..Len(sex) |->
              IF sex[k] = 1 THEN z1[k] ELSE IF sex[k] = 2 THEN z2[k] ELSE NULL])

\* The z-scores of a sex's cells when "if std_almi > 0" lets them be assigned
GuardedZ(subset, st, sd) ==
    IF sd # NULL /\ sd > 0 THEN ZAllWith(subset, st, sd)
    ELSE Series([k \in 1..Len(subset) |-> NULL])

GroupZ_build(subset) == GuardedZ(subset, Stats(subset), StdOf(Stats(subset)))

\* a plausible bug: the third component standardized over both sexes
SexZ_pooled(series, sex) == PooledZ(series)

\* build_iri_cohort's z_almi: within each sex, when that sex's std > 0
SexZ_build(series, sex) ==
    BySex(sex, GroupZ_build(Masked(series, sex, 1)),
          GroupZ_build(Masked(series, sex, 2)))

Flag(b) == IF b THEN 1 ELSE 0

\* comparisons with NaN are False
Ge(a, b) == a # NULL /\ a >= b
Le(a, b) == a # NULL /\ a <= b
Lt(a, b) == a # NULL /\ a < b
Gt(a, b) == a # NULL /\ a > b

\* Age floor and hs-CRP ceiling (10 mg/L, in tenths) of 02_build_cohort.py
AgeFloorBuild == 20
CrpCeiling == 100

\* The columns build_iri_cohort reads as df[...] (not df.get)
DirectBuild == <<"RIDAGEYR", "RIAGENDR", "SDMVPSU", "SDMVSTRA">>

\* build_iri_cohort: demographics, survey design and the three components
BuildComponents(df) ==
    SetCol(SetCol(SetCol(SetCol(SetCol(SetCol(SetCol(SetCol(SetCol(df,
        "age", Col(df, "RIDAGEYR")),
        "sex", Col(df, "RIAGENDR")),
        "mec_weight", Get(df, "WTMEC2YR", Get(df, "WTMECPRP", NaNs(df)))),
        "psu", Col(df, "SDMVPSU")),
        "strata", Col(df, "SDMVSTRA")),
        "hscrp", Get(df, "LBXHSCRP", NaNs(df))),
        "albumin", Get(df, "LBXSAL", NaNs(df))),
        "alm_kg", calculate_alm(df)),
        "height_m", Get(df, "BMXHT", NaNs(df)))

\* np.log(series.replace(0, np.nan))
LogOf(series) ==
    Series([k \in 1..Len(series) |->
              np_log(IF series[k] = 0 THEN NULL ELSE series[k])])

\* df['almi'] and df['log_hscrp']
BuildTransforms(df) ==
    SetCol(SetCol(df,
        "almi", [k \in 1..Len(df.rows) |->
                   AlmiOf(df.rows[k]["alm_kg"], df.rows[k]["height_m"])]),
        "log_hscrp", LogOf(Col(df, "hscrp")))

\* df['z_crp'], df['z_albumin'], df['z_almi']
BuildZScores(df) ==
    SetCol(SetCol(SetCol(df,
        "z_crp", PooledZ(Col(df, "log_hscrp"))),
        "z_albumin", PooledZ(Col(df, "albumin"))),
        "z_almi", SexZ_build(Col(df, "almi"), Col(df, "sex")))

\* df['z_crp_inv'] = df['z_crp'] * -1
BuildInverted(df) ==
    SetCol(df, "z_crp_inv", [k \in 1..Len(df.rows) |-> Neg(df.rows[k]["z_crp"])])

\* df['iri'] = df['z_crp_inv'] + df['z_albumin'] + df['z_almi']
BuildSum(df) ==
    SetCol(df, "iri", [k \in 1..Len(df.rows) |->
                         Add3(df.rows[k]["z_crp_inv"], df.rows[k]["z_albumin"],
                              df.rows[k]["z_almi"])])

\* build_iri_cohort up to and including the index
BuildIndex(df) ==
    BuildSum(BuildInverted(BuildZScores(BuildTransforms(BuildComponents(df)))))

\* df['iri_quartile'] = pd.qcut(df['iri'], q=4, labels=[...])
SetQuartile(df) == SetCol(df, "iri_quartile", Qcut(Col(df, "iri")))

\* the covariates of build_iri_cohort that are read with a default
BuildCovariates(df) ==
    SetCol(SetCol(df, "bmi", Get(df, "BMXBMI", NaNs(df))),
           "hba1c", Get(df, "LBXGH", NaNs(df)))

\* df['age_eligible'], df['iri_available'], df['crp_valid']
BuildCriteria(df) ==
    SetCol(SetCol(SetCol(df,
        "age_eligible", [k \in 1..Len(df.rows) |->
                           Flag(Ge(df.rows[k]["age"], AgeFloorBuild))]),
        "iri_available", [k \in 1..Len(df.rows) |-> Flag(df.rows[k]["iri"] # NULL)]),
        "crp_valid", [k \in 1..Len(df.rows) |->
                        Flag(Le(df.rows[k]["hscrp"], CrpCeiling))])

\* df['eligible']: the three criteria and a survey weight
BuildEligible(df) ==
    SetCol(df, "eligible",
           [k \in 1..Len(df.rows) |->
              Flag(df.rows[k]["age_eligible"] = 1 /\ df.rows[k]["iri_available"] = 1
                   /\ df.rows[k]["crp_valid"] = 1
                   /\ df.rows[k]["mec_weight"] # NULL)])

\* the eligibility block of build_iri_cohort
BuildEligibility(df) == BuildEligible(BuildCriteria(df))

\* build_iri_cohort from the quartiles on, d being the table with the index
BuildFromQuartile(d) ==
    IF QcutRaises(Col(d, "iri"))
    THEN [df |-> d, err |-> "ValueError: Bin edges must be unique"]
    ELSE [df |-> BuildEligibility(BuildCovariates(SetQuartile(d))), err |-> "none"]

\* build_iri_cohort: the table with its derived columns, or the exception
build_iri_cohort(df) ==
    IF KeyErrorOf(df, DirectBuild) # "none"
    THEN [df |-> df, err |-> KeyErrorOf(df, DirectBuild)]
    ELSE BuildFromQuartile(BuildIndex(df))

-----------------------------------------------------------------------------
(* 02_harmonize_iri.py: construct_iri, create_derived_variables,           *)
(* apply_eligibility_criteria                                              *)

grip_cols == <<"MGXH1T1", "MGXH1T2", "MGXH1T3", "MGXH2T1", "MGXH2T2", "MGXH2T3">>

\* max of a set of cells, NaN skipped; NaN when there is none
MaxOf(S) ==
    IF S \ {NULL} = {} THEN NULL
    ELSE CHOOSE m \in S \ {NULL} : \A x \in S \ {NULL} : x <= m

\* only a negative reading replaced, a zero kept
ValidGripNegative(v) == IF v = NULL \/ v < 0 THEN NULL ELSE v

\* a grip reading that is 0 or negative is replaced by NaN
ValidGrip(v) == IF v = NULL \/ v <= 0 THEN NULL ELSE v

\* the row-wise maximum of the trial columns numbered by available
MaxGrip(df, available) ==
    IF available = {} THEN NaNs(df)
    ELSE Series([k \in 1..Len(df.rows) |->
                   MaxOf({ValidGrip(df.rows[k][grip_cols[i]]) : i \in available})])

\* compute_max_grip_strength: the largest positive reading of the trial
\* columns that exist
compute_max_grip_strength(df) ==
    MaxGrip(df, {i \in 1..6 : grip_cols[i] \in df.cols})

GroupZ_harmonize(subset) == ZAll(subset, Stats(subset))

\* construct_iri's z_grip: within each sex that has a row
SexZ_harmonize(series, sex) ==
    BySex(sex, GroupZ_harmonize(Masked(series, sex, 1)),
          GroupZ_harmonize(Masked(series, sex, 2)))

\* df['hscrp'], df['albumin'], df['grip_max']
ConstructComponents(df) ==
    SetCol(SetCol(SetCol(df,
        "hscrp", Get(df, "LBXHSCRP", NaNs(df))),
        "albumin", Get(df, "LBXSAL", NaNs(df))),
        "grip_max", compute_max_grip_strength(df))

ConstructLog(df) == SetCol(df, "log_hscrp", LogOf(Col(df, "hscrp")))

\* df['z_log_hscrp'], df['z_albumin'], df['z_grip']
ConstructZScores(df) ==
    SetCol(SetCol(SetCol(df,
        "z_log_hscrp", PooledZ(Col(df, "log_hscrp"))),
        "z_albumin", PooledZ(Col(df, "albumin"))),
        "z_grip", SexZ_harmonize(Col(df, "grip_max"), Col(df, "RIAGENDR")))

\* df['iri'] = (-df['z_log_hscrp']) + df['z_albumin'] + df['z_grip']
ConstructSum(df) ==
    SetCol(df, "iri", [k \in 1..Len(df.rows) |->
                         Add3(Neg(df.rows[k]["z_log_hscrp"]), df.rows[k]["z_albumin"],
                              df.rows[k]["z_grip"])])

\* construct_iri up to and including the index
ConstructIndex(df) ==
    ConstructSum(ConstructZScores(ConstructLog(ConstructComponents(df))))

\* Ten times series.quantile(0.10) of the sorted values xs, by linear
\* interpolation; NaN for no value
Quantile10(xs) ==
    IF xs = <<>> THEN NULL
    ELSE LET lo == (Len(xs) - 1) \div 10
             r == (Len(xs) - 1) % 10
         IN  IF r = 0 THEN 10 * xs[lo + 1]
             ELSE 10 * xs[lo + 1] + r * (xs[lo + 2] - xs[lo + 1])

\* (series < series.quantile(0.10)).astype(int)
GripLowP10(series) ==
    LET q == Quantile10(Sort(DropNull(series)))
    IN  Series([k \in 1..Len(series) |->
                  Flag(series[k] # NULL /\ q # NULL /\ 10 * series[k] < q)])

\* the sensitivity flags of construct_iri on hs-CRP (10 and 20 mg/L),
\* albumin (3.5 g/dL) and grip (lowest decile)
ConstructFlags(df) ==
    SetCol(SetCol(SetCol(SetCol(df,
        "flag_crp_high", [k \in 1..Len(df.rows) |->
                            Flag(Gt(df.rows[k]["hscrp"], 100))]),
        "flag_crp_very_high", [k \in 1..Len(df.rows) |->
                                 Flag(Gt(df.rows[k]["hscrp"], 200))]),
        "flag_albumin_low", [k \in 1..Len(df.rows) |->
                               Flag(Lt(df.rows[k]["albumin"], 35))]),
        "flag_grip_low_p10", GripLowP10(Col(df, "grip_max")))

\* construct_iri from the quartiles on, d being the table with the index
ConstructFromQuartile(d) ==
    IF QcutRaises(Col(d, "iri"))
    THEN [df |-> d, err |-> "ValueError: Bin edges must be unique"]
    ELSE [df |-> ConstructFlags(SetQuartile(d)), err |-> "none"]

construct_iri(df) ==
    IF "RIAGENDR" \notin df.cols
    THEN [df |-> df, err |-> "KeyError: RIAGENDR"]
    ELSE ConstructFromQuartile(ConstructIndex(df))

\* The number of rows of each cycle of the combined table
GroupSizes(df) ==
    [c \in {df.rows[k]["cycle"] : k \in 1..Len(df.rows)} |->
        Cardinality({k \in 1..Len(df.rows) : df.rows[k]["cycle"] = c})]

\* create_derived_variables, lines 551-554: the groupby yields, per cycle,
\* the pair of that cycle's systolic and diastolic lists; explode makes each
\* list an element, the lambda takes the first two readings of each, and
\* the unpacking zip turns the 2G pairs into two tuples of 2G values, which are
\* assigned to two columns of len(df) cells.
ZipError(sizes, n) ==
    IF \E c \in DOMAIN sizes : sizes[c] < 2
    THEN "IndexError: list index out of range"
    ELSE IF 2 * Cardinality(DOMAIN sizes) # n
    THEN "ValueError: Length of values does not match length of index"
    ELSE "none"

BpZipError(df) == ZipError(GroupSizes(df), Len(df.rows))

\* The columns create_derived_variables reads as df[...] (not df.get), in
\* the order it reads them, before and after lines 551-554
DirectBefore ==
    <<"RIDAGEYR", "RIAGENDR", "RIDRETH3", "DMDEDUC2", "INDFMPIR", "BMXBMI", "LBXSCR">>
DirectAfter == <<"LBXGH", "LBXTC", "LBXTR">>

\* df['age'], df['sex'], df['pregnant']
DerivedColumns(df) ==
    SetCol(SetCol(SetCol(df,
        "age", Col(df, "RIDAGEYR")),
        "sex", Col(df, "RIAGENDR")),
        "pregnant", [k \in 1..Len(df.rows) |->
                       Flag("RIDEXPRG" \in df.cols /\ df.rows[k]["RIDEXPRG"] = 1)])

\* The exception create_derived_variables raises ("none": none)
DerivedError(df) ==
    IF KeyErrorOf(df, DirectBefore) # "none" THEN KeyErrorOf(df, DirectBefore)
    ELSE IF BpZipError(df) # "none" THEN BpZipError(df)
    ELSE KeyErrorOf(df, DirectAfter)

create_derived_variables(df) ==
    IF DerivedError(df) # "none" THEN [df |-> df, err |-> DerivedError(df)]
    ELSE [df |-> DerivedColumns(df), err |-> "none"]

\* Age floor of 02_harmonize_iri.py
AgeFloorHarmonize == 18

\* df['has_iri_components']
HasComponents(df) ==
    SetCol(df, "has_iri_components",
           [k \in 1..Len(df.rows) |->
              Flag(df.rows[k]["hscrp"] # NULL /\ df.rows[k]["albumin"] # NULL
                   /\ df.rows[k]["grip_max"] # NULL)])

\* a plausible bug: a subject with the high hs-CRP flag is made ineligible
EligibleUnflagged(df) ==
    SetCol(SetCol(df, "eligible",
           [k \in 1..Len(df.rows) |->
              Flag(~Lt(df.rows[k]["age"], AgeFloorHarmonize)
                   /\ df.rows[k]["pregnant"] # 1
                   /\ df.rows[k]["has_iri_components"] # 0
                   /\ df.rows[k]["flag_crp_high"] # 1)]),
           "has_mortality_eligible", Const(df, 1))

\* df['eligible']: 1, then 0 for the under-age, the pregnant and those
\* without the three measurements
Eligible(df) ==
    SetCol(SetCol(df, "eligible",
           [k \in 1..Len(df.rows) |->
              Flag(~Lt(df.rows[k]["age"], AgeFloorHarmonize)
                   /\ df.rows[k]["pregnant"] # 1
                   /\ df.rows[k]["has_iri_components"] # 0)]),
           "has_mortality_eligible", Const(df, 1))

\* df['primary_analysis']
PrimaryAnalysis(df) ==
    SetCol(df, "primary_analysis",
           [k \in 1..Len(df.rows) |->
              Flag(df.rows[k]["eligible"] = 1
                   /\ Le(df.rows[k]["hscrp"], CrpCeiling))])

apply_eligibility_criteria(df) == PrimaryAnalysis(Eligible(HasComponents(df)))

-----------------------------------------------------------------------------
(* The raw files of a cycle directory *)

\* A subject as the survey measured them: age in years, sex (1 male, 2
\* female), hs-CRP (tenths of mg/L), albumin (tenths of g/dL), lean mass of
\* each limb (tenths of kg), height (cm), best grip trial (kg).  NULL: the
\* examination was not done, and the component file has no row for the
\* subject.  larm is the lean mass of the left arm, which the scan may lack
\* while it has the other limbs; wt is the examination weight of the
\* demographics file.
Subject(age, sex, crp, alb, limb, ht, grip) ==
    [age |-> age, sex |-> sex, crp |-> crp, alb |-> alb, limb |-> limb,
     larm |-> limb, ht |-> ht, grip |-> grip, wt |-> 1000]

Profiles ==
    << Subject(40, 1, 10, 40, 50, 170, 40),
       Subject(60, 1, 50, 35, 40, 180, 30),
       Subject(15, 1, 5, 45, 60, 160, 45),
       Subject(50, 2, 150, 30, 30, 160, 20),
       Subject(30, 2, NULL, 40, 40, 165, 25) >>

\* Profiles, then a subject whose hs-CRP is recorded as zero and a subject
\* whose scan lacks the left arm and whose examination weight is missing
CohortProfiles ==
    Profiles \o << Subject(45, 1, 0, 42, 45, 175, 35),
                   [Subject(55, 1, 20, 38, 55, 172, 38)
                        EXCEPT !.larm = NULL, !.wt = NULL] >>

\* The cell of raw column c for subject p with identifier id
RawCell(c, id, p) ==
    CASE c = "SEQN" -> id
      [] c = "RIDAGEYR" -> p.age
      [] c = "RIAGENDR" -> p.sex
      [] c \in {"WTMEC2YR", "WTMECPRP"} -> p.wt
      [] c = "LBXHSCRP" -> p.crp
      [] c = "LBXSAL" -> p.alb
      [] c = "DXDLALE" -> p.larm
      [] c \in {"DXDRALE", "DXDLLLE", "DXDRLLE"} -> p.limb
      [] c = "BMXHT" -> p.ht
      [] c = "BMXBMI" -> 250
      [] c = "MGXH1T1" -> p.grip
      [] c = "MGXH2T1" -> IF p.grip = NULL THEN NULL ELSE p.grip - 5
      [] c = "LBXSCR" -> 10
      [] c = "LBXGH" -> 55
      [] c = "LBXTC" -> 180
      [] c = "LBXTR" -> 100
      [] OTHER -> 1

\* The columns of the file of each component, the identifier apart
RawCols(pat, cycle) ==
    CASE pat = "DEMO" ->
             {"RIDAGEYR", "RIAGENDR", "SDMVPSU", "SDMVSTRA", "RIDRETH3",
              "DMDEDUC2", "INDFMPIR",
              IF is_prepandemic_of(cycle) THEN "WTMECPRP" ELSE "WTMEC2YR"}
      [] pat = "HSCRP" -> {"LBXHSCRP"}
      [] pat = "BIOPRO" -> {"LBXSAL", "LBXSCR"}
      [] pat = "DXX" -> {"DXDLALE", "DXDRALE", "DXDLLLE", "DXDRLLE"}
      [] pat = "BMX" -> {"BMXHT", "BMXBMI"}
      [] pat = "MGX" -> {"MGXH1T1", "MGXH2T1"}
      [] pat = "GHB" -> {"LBXGH"}
      [] pat = "TCHOL" -> {"LBXTC"}
      [] pat = "TRIGLY" -> {"LBXTR"}
      [] OTHER -> {}

\* Whether the component's file has a row for the subject
Measured(pat, p) ==
    CASE pat = "HSCRP" -> p.crp # NULL
      [] pat = "BIOPRO" -> p.alb # NULL
      [] pat = "DXX" -> p.limb # NULL
      [] pat = "BMX" -> p.ht # NULL
      [] pat = "MGX" -> p.grip # NULL
      [] OTHER -> TRUE

RECURSIVE RawRows(_, _, _, _)
\* ids and ps: the identifiers and the subjects of the cycle, in file order
RawRows(pat, cols, ids, ps) ==
    IF ps = <<>> THEN <<>>
    ELSE (IF Measured(pat, Head(ps))
          THEN <<Row([c \in cols |-> RawCell(c, Head(ids), Head(ps))])>>
          ELSE <<>>)
         \o RawRows(pat, cols, Tail(ids), Tail(ps))

RawTable(pat, cycle, ids, ps) ==
    [cols |-> {"SEQN"} \cup RawCols(pat, cycle),
     rows |-> RawRows(pat, {"SEQN"} \cup RawCols(pat, cycle), ids, ps)]

\* File names as 01_download_data.py writes them: P_DEMO.xpt in 2017-2020,
\* DEMO_I.xpt in 2015-2016 (suffix _G in 2011-2012, _H in 2013-2014)
FileName(pat, cycle) ==
    IF cycle = 2017 THEN <<"P", "_">> \o pat.chars
    ELSE pat.chars \o <<"_", CASE cycle = 2011 -> "G" [] cycle = 2013 -> "H"
                               [] OTHER -> "I">>

\* The components whose files a cycle directory holds, in directory order
DirPatterns(script) ==
    IF script = "build_cohort"
    THEN <<Pat("BIOPRO"), Pat("BMX"), Pat("DEMO"), Pat("DXX"), Pat("GHB"),
           Pat("HSCRP")>>
    ELSE <<Pat("BIOPRO"), Pat("BMX"), Pat("DEMO"), Pat("GHB"), Pat("HSCRP"),
           Pat("MGX"), Pat("TCHOL"), Pat("TRIGLY")>>

\* What is wrong with a directory: nothing, or one file that is absent or
\* that pd.read_sas cannot decode
NoFault == [pat |-> "", kind |-> "none"]

RECURSIVE DirFiles(_, _, _, _, _)
DirFiles(pats, cycle, ids, ps, fault) ==
    IF pats = <<>> THEN <<>>
    ELSE LET pat == Head(pats)
             rest == DirFiles(Tail(pats), cycle, ids, ps, fault)
         IN  IF fault.pat = pat.name /\ fault.kind = "absent" THEN rest
             ELSE IF fault.pat = pat.name /\ fault.kind = "corrupt"
             THEN <<[name |-> FileName(pat, cycle), ok |-> FALSE, df |-> EmptyDF]>>
                  \o rest
             ELSE <<[name |-> FileName(pat, cycle), ok |-> TRUE,
                     df |-> RawTable(pat.name, cycle, ids, ps)]>> \o rest

NoDir == [exists |-> FALSE, files |-> <<>>]

-----------------------------------------------------------------------------
(* process_cycle as a whole *)

\* The outcome of process_cycle: the table, the exception ("none": none),
\* and the files load_xpt warned about
Outcome(df, e, w) == [df |-> df, err |-> e, warned |-> w]

\* load_xpt's warning for a file
WarningOf(file) == IF file # NoFile /\ ~file.ok THEN {file.name} ELSE {}

RECURSIVE MergeAll(_, _, _, _, _, _)
\* the component loop from entry i on, r being the outcome of entry i
MergeNext(script, r, files, pats, i, w) ==
    IF r.err # "none" THEN Outcome(r.df, r.err, w)
    ELSE MergeAll(script, r.df, files, pats, i + 1,
                  IF r.warned THEN w \cup {r.file} ELSE w)

MergeAll(script, df, files, pats, i, w) ==
    IF i > Len(pats) THEN Outcome(df, "none", w)
    ELSE MergeNext(script, MergeStep(script, df, files, pats[i]), files, pats, i, w)

\* process_cycle after the component loop: the cycle tag
Tagged(script, cycle, r) ==
    IF r.err # "none" THEN r
    ELSE Outcome(TagCycle(script, r.df, cycle), "none", r.warned)

\* process_cycle from the DEMO file found
FromDemo(script, cycle, files, demo_file) ==
    IF demo_file = NoFile THEN Outcome(EmptyDF, "none", {})
    ELSE Tagged(script, cycle,
                MergeAll(script, load_xpt(demo_file), files,
                         PatternsOf(script, cycle), 1, WarningOf(demo_file)))

process_cycle(script, cycle, dir) ==
    IF ~dir.exists THEN Outcome(EmptyDF, "none", {})
    ELSE FromDemo(script, cycle, dir.files, FindFileOf(script, dir.files, Pat("DEMO")))

-----------------------------------------------------------------------------
(* Export *)

\* 02_build_cohort.py main: export_vars
export_vars ==
    {"SEQN", "cycle", "mec_weight", "psu", "strata", "age", "sex", "female",
     "race_eth", "hscrp", "albumin", "alm_kg", "almi", "z_crp_inv", "z_albumin",
     "z_almi", "iri", "iri_quartile", "bmi", "obesity", "height_m", "mean_sbp",
     "mean_dbp", "hypertension", "hba1c", "diabetes", "smoking_status",
     "current_smoker", "egfr", "ckd", "cvd_history", "cancer_history", "eligible"}

\* 02_harmonize_iri.py main: key_vars
key_vars ==
    {"SEQN", "cycle", "is_prepandemic", "WTMEC2YR", "WTMECPRP", "SDMVPSU",
     "SDMVSTRA", "hscrp", "log_hscrp", "z_log_hscrp", "albumin", "z_albumin",
     "grip_max", "z_grip", "iri", "iri_quartile", "age", "sex", "female",
     "race_eth", "education", "college_grad", "pir", "poverty", "bmi", "bmi_cat",
     "obesity", "mean_sbp", "mean_dbp", "hypertension", "hba1c", "diabetes",
     "tchol", "hdl", "ldl", "trigly", "dyslipidemia", "creatinine", "egfr",
     "ckd_stage", "egfr_lt60", "smoking_status", "current_smoker",
     "met_min_week", "meets_pa_guidelines", "cvd_history", "chf_history",
     "cancer_history", "eligible", "primary_analysis", "has_iri_components",
     "pregnant", "flag_crp_high", "flag_crp_very_high", "flag_albumin_low",
     "flag_grip_low_p10", "flag_severe_ckd", "flag_cancer"}

\* combined[[v for v in vars if v in combined.columns]]
Select(df, names) ==
    [cols |-> df.cols \cap names,
     rows |-> Series([k \in 1..Len(df.rows) |->
                        Row([c \in df.cols \cap names |-> df.rows[k][c]])])]

ExportOf(script, df) ==
    Select(df, IF script = "build_cohort" THEN export_vars ELSE key_vars)

-----------------------------------------------------------------------------
(* 03_link_mortality.py *)

\* A mortality file: the cycle in its name, whether read_fwf can read it,
\* and its records [publicid, mortstat, ucod_leading, permth_exm]
MortRecord(id, mortstat, ucod, months) ==
    [publicid |-> id, mortstat |-> mortstat, ucod_leading |-> ucod,
     permth_exm |-> months]

\* load_mortality_file: the records with SEQN parsed from the padded
\* identifier; an empty table when the file cannot be read
load_mortality_file(file) ==
    IF ~file.ok THEN EmptyDF
    ELSE [cols |-> {"publicid", "mortstat", "ucod_leading", "permth_exm", "SEQN"},
          rows |-> [k \in 1..Len(file.records) |->
                      [c \in {"publicid", "mortstat", "ucod_leading", "permth_exm",
                              "SEQN"} |->
                         IF c = "SEQN" THEN file.records[k].publicid
                         ELSE file.records[k][c]]]]

RECURSIVE LoadAll(_)
\* all_mort: the tables of the files that gave at least one record
LoadAll(files) ==
    IF files = <<>> THEN <<>>
    ELSE (IF Len(load_mortality_file(Head(files)).rows) > 0
          THEN <<load_mortality_file(Head(files))>> ELSE <<>>)
         \o LoadAll(Tail(files))

\* a plausible bug: no deduplication of the mortality records
KeepAll(rows, seen) == rows

RECURSIVE KeepLast(_, _)
\* a plausible bug: of the records of an identifier the last one is kept
KeepLast(rows, seen) ==
    IF rows = <<>> THEN <<>>
    ELSE IF \E j \in 2..Len(rows) : rows[j]["SEQN"] = Head(rows)["SEQN"]
         THEN KeepLast(Tail(rows), seen)
         ELSE <<Head(rows)>> \o KeepLast(Tail(rows), seen)

RECURSIVE KeepFirst(_, _)
\* the rows whose SEQN did not occur before them
KeepFirst(rows, seen) ==
    IF rows = <<>> THEN <<>>
    ELSE IF Head(rows)["SEQN"] \in seen THEN KeepFirst(Tail(rows), seen)
         ELSE <<Head(rows)>> \o KeepFirst(Tail(rows), seen \cup {Head(rows)["SEQN"]})

\* combined_mort.drop_duplicates(subset=['SEQN'])
drop_duplicates(df) == [cols |-> df.cols, rows |-> KeepFirst(df.rows, {})]

\* a plausible bug: the cardiovascular flag for heart disease (code 1) only
define_heart_only(df) ==
    LET n == Len(df.rows)
        dead(k) == df.rows[k]["mortstat"] = 1
        ucod(k) == df.rows[k]["ucod_leading"]
    IN  SetCol(SetCol(SetCol(SetCol(df,
            "mort_cv", [k \in 1..n |-> Flag(dead(k) /\ ucod(k) = 1)]),
            "mort_heart", [k \in 1..n |-> Flag(dead(k) /\ ucod(k) = 1)]),
            "mort_all", [k \in 1..n |-> Flag(dead(k))]),
            "mort_cancer", [k \in 1..n |-> Flag(dead(k) /\ ucod(k) = 2)])

define_cause_specific_mortality(df) ==
    LET n == Len(df.rows)
        dead(k) == df.rows[k]["mortstat"] = 1
        ucod(k) == df.rows[k]["ucod_leading"]
    IN  SetCol(SetCol(SetCol(SetCol(df,
            "mort_cv", [k \in 1..n |-> Flag(dead(k) /\ ucod(k) \in {1, 5})]),
            "mort_heart", [k \in 1..n |-> Flag(dead(k) /\ ucod(k) = 1)]),
            "mort_all", [k \in 1..n |-> Flag(dead(k))]),
            "mort_cancer", [k \in 1..n |-> Flag(dead(k) /\ ucod(k) = 2)])

mort_vars ==
    {"SEQN", "mortstat", "permth_exm", "mort_all", "mort_cv", "mort_heart",
     "mort_cancer"}

\* series.fillna(0)
FillNa0(df, name) ==
    SetCol(df, name, [k \in 1..Len(df.rows) |->
                        IF df.rows[k][name] = NULL THEN 0 ELSE df.rows[k][name]])

\* Follow-up defaults, in tenths of a year, of the subjects without a record
FollowupDefault2015 == 35
FollowupDefault2017 == 20

\* permth_exm / 12 in tenths of a year, then the per-cycle defaults
FollowupYears(months, cycle) ==
    IF months # NULL THEN (months * 10) \div 12
    ELSE IF cycle = 2015 THEN FollowupDefault2015
    ELSE IF cycle = 2017 THEN FollowupDefault2017
    ELSE NULL

\* df['followup_years']: permth_exm / 12, then the defaults
SetFollowup(df) ==
    SetCol(df, "followup_years",
           [k \in 1..Len(df.rows) |->
              FollowupYears(df.rows[k]["permth_exm"], df.rows[k]["cycle"])])

FillOutcomes(df) ==
    FillNa0(FillNa0(FillNa0(FillNa0(FillNa0(df, "mortstat"), "mort_all"),
            "mort_cv"), "mort_heart"), "mort_cancer")

\* the placeholder columns of a run without mortality data
Placeholders(df) ==
    SetCol(SetCol(SetCol(SetCol(SetCol(df, "mortstat", NaNs(df)),
           "mort_all", NaNs(df)), "mort_cv", NaNs(df)),
           "mort_heart", NaNs(df)), "followup_years", NaNs(df))

\* combined_mort: concatenated, deduplicated, with the cause flags
CombinedMort(all_mort) ==
    define_cause_specific_mortality(drop_duplicates(Concat(all_mort)))

\* main from "if not all_mort" on.  No column of mort_vars but SEQN is a
\* column of the cohort, so the default suffixes of merge never apply.
LinkLoaded(df, all_mort) ==
    IF all_mort = <<>> THEN Placeholders(df)
    ELSE SetFollowup(FillOutcomes(
             Merge(df, Select(CombinedMort(all_mort), mort_vars), "y")))

\* main of 03_link_mortality.py on the cohort df and the mortality files
link_mortality(df, files) == LinkLoaded(df, LoadAll(files))

-----------------------------------------------------------------------------
(* A run of main (either script), followed for 02_build_cohort.py by a run  *)
(* of 03_link_mortality.py on its export                                   *)

\* Most subjects of one cycle directory, most subjects of a run, and most
\* faulty files of a run
MaxPerCycle == 2
MaxRows == 3
MaxFaults == 1

CyclesOf(s) == IF s = "build_cohort" THEN cycles_build ELSE cycles_harmonize

\* Identifiers are unique within a cycle, not across cycles: the identifier
\* of the j-th subject of the c-th cycle of the list
IdOf(c, j) == c + j - 1

\* The subjects of a directory, as indices into Profiles, in file order
SubjectLists(room) ==
    {ps \in UNION {[1..n -> 1..Len(Profiles)] : n \in 1..MaxPerCycle} :
        /\ Len(ps) <= room
        /\ \A j \in 1..(Len(ps) - 1) : ps[j] <= ps[j + 1]}

\* The faulty file: the base table, a component of the index, the body
\* measures or a covariate; missing from the directory or undecodable
Faults ==
    {[pat |-> p, kind |-> k] :
        p \in {"DEMO", "HSCRP", "BMX", "GHB"}, k \in {"absent", "corrupt"}}

\* The directory described by d = [exists, ps, fault] for cycle number c
DirOf(s, c, d) ==
    IF ~d.exists THEN NoDir
    ELSE [exists |-> TRUE,
          files |-> DirFiles(DirPatterns(s), CyclesOf(s)[c],
                             [j \in 1..Len(d.ps) |-> IdOf(c, j)],
                             [j \in 1..Len(d.ps) |-> CohortProfiles[d.ps[j]]],
                             d.fault)]

RowsSoFar == SumSeq([i \in 1..Len(dirs) |-> Len(dirs[i].ps)])
FaultsSoFar == Cardinality({i \in 1..Len(dirs) : dirs[i].fault # NoFault})

MergeOff ==
    /\ m_script = "" /\ m_dir = <<>> /\ m_base = EmptyDF /\ m_df = EmptyDF
    /\ m_i = 0 /\ m_cycle = 0 /\ m_pc = "off" /\ m_last = M_Idle /\ m_hist = <<>>

Init ==
    /\ MergeOff
    /\ main_script \in {"build_cohort", "harmonize"}
    /\ pc = "cycles"
    /\ ci = 1
    /\ dirs = <<>>
    /\ all_data = <<>>
    /\ combined = EmptyDF
    /\ exported = EmptyDF
    /\ err = "none"
    /\ warned = {}
    /\ mort_files = <<>>
    /\ linked = EmptyDF

\* one iteration of "for cycle in cycles": process_cycle and the append
ProcessCycle ==
    /\ pc = "cycles"
    /\ ci <= Len(CyclesOf(main_script))
    /\ \E d \in {[exists |-> FALSE, ps |-> <<>>, fault |-> NoFault]}
                \cup {[exists |-> TRUE, ps |-> ps, fault |-> f] :
                        ps \in SubjectLists(MaxRows - RowsSoFar),
                        f \in {NoFault} \cup
                              (IF FaultsSoFar < MaxFaults THEN Faults ELSE {})} :
          \E r \in {process_cycle(main_script, CyclesOf(main_script)[ci],
                                   DirOf(main_script, ci, d))} :
              /\ dirs' = Append(dirs, d)
              /\ warned' = warned \cup {<<CyclesOf(main_script)[ci], f>> : f \in r.warned}
              /\ IF r.err # "none"
                 THEN /\ err' = r.err
                      /\ pc' = "error"
                      /\ UNCHANGED all_data
                 ELSE /\ all_data' = IF Len(r.df.rows) > 0 THEN Append(all_data, r.df)
                                     ELSE all_data
                      /\ UNCHANGED <<err, pc>>
    /\ ci' = ci + 1
    /\ UNCHANGED <<main_script, combined, exported, mort_files, linked>>
    /\ UNCHANGED varsMerge

\* after the loop: return when nothing was loaded, else pd.concat
ConcatCycles ==
    /\ pc = "cycles"
    /\ ci > Len(CyclesOf(main_script))
    /\ IF all_data = <<>>
       THEN pc' = "nodata" /\ UNCHANGED combined
       ELSE pc' = "index" /\ combined' = Concat(all_data)
    /\ UNCHANGED <<main_script, ci, dirs, all_data, exported, err, warned, mort_files,
                   linked>>
    /\ UNCHANGED varsMerge

\* 02_build_cohort.py: combined = build_iri_cohort(combined)
BuildIriCohort ==
    /\ pc = "index"
    /\ main_script = "build_cohort"
    /\ LET r == build_iri_cohort(combined)
       IN  /\ combined' = r.df
           /\ err' = r.err
           /\ pc' = IF r.err = "none" THEN "export" ELSE "error"
    /\ UNCHANGED <<main_script, ci, dirs, all_data, exported, warned, mort_files, linked>>
    /\ UNCHANGED varsMerge

\* 02_harmonize_iri.py: combined = construct_iri(combined)
ConstructIri ==
    /\ pc = "index"
    /\ main_script = "harmonize"
    /\ LET r == construct_iri(combined)
       IN  /\ combined' = r.df
           /\ err' = r.err
           /\ pc' = IF r.err = "none" THEN "derive" ELSE "error"
    /\ UNCHANGED <<main_script, ci, dirs, all_data, exported, warned, mort_files, linked>>
    /\ UNCHANGED varsMerge

\* 02_harmonize_iri.py: combined = create_derived_variables(combined)
CreateDerivedVariables ==
    /\ pc = "derive"
    /\ LET r == create_derived_variables(combined)
       IN  /\ combined' = r.df
           /\ err' = r.err
           /\ pc' = IF r.err = "none" THEN "eligibility" ELSE "error"
    /\ UNCHANGED <<main_script, ci, dirs, all_data, exported, warned, mort_files, linked>>
    /\ UNCHANGED varsMerge

\* 02_harmonize_iri.py: combined = apply_eligibility_criteria(combined)
ApplyEligibilityCriteria ==
    /\ pc = "eligibility"
    /\ combined' = apply_eligibility_criteria(combined)
    /\ pc' = "export"
    /\ UNCHANGED <<main_script, ci, dirs, all_data, exported, err, warned, mort_files,
                   linked>>
    /\ UNCHANGED varsMerge

\* combined[export_vars].to_parquet(output_path)
Export ==
    /\ pc = "export"
    /\ exported' = ExportOf(main_script, combined)
    /\ pc' = IF main_script = "build_cohort" THEN "link" ELSE "done"
    /\ UNCHANGED <<main_script, ci, dirs, all_data, combined, err, warned, mort_files,
                   linked>>
    /\ UNCHANGED varsMerge

\* The mortality files of a run of 03_link_mortality.py
Mort2015 ==
    [cycle |-> 2015, ok |-> TRUE,
     records |-> <<MortRecord(1, 1, 1, 24), MortRecord(2, 0, NULL, 40)>>]
Mort2017 ==
    [cycle |-> 2017, ok |-> TRUE,
     records |-> <<MortRecord(2, 1, 2, 12), MortRecord(3, 0, 1, 20)>>]
MortTwice ==
    [cycle |-> 2015, ok |-> TRUE,
     records |-> <<MortRecord(1, 1, 5, 24), MortRecord(1, 0, NULL, 40)>>]
MortIneligible ==
    [cycle |-> 2015, ok |-> TRUE,
     records |-> <<MortRecord(2, NULL, NULL, NULL)>>]
MortUnreadable == [cycle |-> 2015, ok |-> FALSE, records |-> <<>>]

MortChoices ==
    { <<>>, <<MortUnreadable>>, <<Mort2015>>, <<Mort2017>>, <<Mort2015, Mort2017>>,
      <<Mort2017, Mort2015>>, <<MortTwice, Mort2017>>, <<MortIneligible, Mort2017>> }

\* 03_link_mortality.py main, on the export of 02_build_cohort.py
LinkMortality ==
    /\ pc = "link"
    /\ \E fs \in MortChoices :
          /\ mort_files' = fs
          /\ linked' = link_mortality(exported, fs)
    /\ pc' = "done"
    /\ UNCHANGED <<main_script, ci, dirs, all_data, combined, exported, err, warned>>
    /\ UNCHANGED varsMerge

Next ==
    \/ ProcessCycle
    \/ ConcatCycles
    \/ BuildIriCohort
    \/ ConstructIri
    \/ CreateDerivedVariables
    \/ ApplyEligibilityCriteria
    \/ Export
    \/ LinkMortality

Spec == Init /\ [][Next]_vars

-----------------------------------------------------------------------------
(* Properties of a run (Spec) *)

\* The table has its index column: index construction has acted
IndexBuilt == "iri" \in combined.cols

\* The three standardized components of a row of the combined table
InvertedCrpZ(row) ==
    IF main_script = "build_cohort" THEN row["z_crp_inv"] ELSE Neg(row["z_log_hscrp"])
AlbuminZ(row) == row["z_albumin"]
ThirdZ(row) == IF main_script = "build_cohort" THEN row["z_almi"] ELSE row["z_grip"]

MissingComponents(row) ==
    Cardinality({i \in 1..3 : <<InvertedCrpZ(row), AlbuminZ(row), ThirdZ(row)>>[i] = NULL})

\* C1: after index construction, a subject's index is missing exactly when
\* one of its three standardized components is missing, and an index that
\* is present is the sum of all three (never of only those present).
C1_IndexMissingIffComponentMissing ==
    IndexBuilt =>
        \A k \in 1..Len(combined.rows) :
            LET row == combined.rows[k]
            IN  /\ (row["iri"] = NULL) <=> (MissingComponents(row) > 0)
                /\ row["iri"] # NULL =>
                       row["iri"] = InvertedCrpZ(row) + AlbuminZ(row) + ThirdZ(row)

\* a finished derivation in which one subject lacks exactly one component
\* (so a partial sum of two exists) and another subject has an index
C1_Witness ==
    /\ IndexBuilt
    /\ pc \in {"export", "link", "done"}
    /\ \E k \in 1..Len(combined.rows) :
          MissingComponents(combined.rows[k]) = 1 /\ combined.rows[k]["iri"] = NULL
    /\ \E k \in 1..Len(combined.rows) : combined.rows[k]["iri"] # NULL

\* The index values of the eligible subjects, NaN for the others
EligibleIri ==
    [k \in 1..Len(combined.rows) |->
        IF combined.rows[k]["eligible"] = 1 THEN combined.rows[k]["iri"] ELSE NULL]

\* C2: every eligible subject's quartile is its bucket for the cut points of
\* the index values of the eligible subjects alone.
C2_QuartilesFromEligibleOnly ==
    (pc \in {"export", "link", "done"} /\ ~Duplicated(Edges(EligibleIri))) =>
        \A k \in 1..Len(combined.rows) :
            combined.rows[k]["eligible"] = 1 =>
                combined.rows[k]["iri_quartile"]
                    = Bucket(Edges(EligibleIri), combined.rows[k]["iri"])

\* The cells of a raw column over the tables of all_data, in order
AllValuesOf(name) ==
    FlattenSeq([i \in 1..Len(all_data) |->
                  Get(all_data[i], name, NaNs(all_data[i]))])

TotalRows == SumSeq([i \in 1..Len(all_data) |-> Len(all_data[i].rows)])

ZColumns == {"z_crp", "z_crp_inv", "z_log_hscrp", "z_albumin", "z_almi", "z_grip"}

\* The table of all_data a row of the combined table comes from
TableOfRow(k) ==
    CHOOSE i \in 1..Len(all_data) :
        /\ k > SumSeq([j \in 1..(i - 1) |-> Len(all_data[j].rows)])
        /\ k <= SumSeq([j \in 1..i |-> Len(all_data[j].rows)])

\* C3: no cycle table ever holds a z-score; z-scores exist only once every
\* cycle has been processed, over a table that has the rows of all cycle
\* tables, and each pooled z-score uses the mean and std of the values of
\* all cycles.
C3_StatisticsAfterConcatenation ==
    /\ \A i \in 1..Len(all_data) : all_data[i].cols \cap ZColumns = {}
    /\ combined.cols \cap ZColumns # {} =>
          /\ ci > Len(CyclesOf(main_script))
          /\ Len(combined.rows) = TotalRows
          /\ \A k \in 1..Len(combined.rows) :
                /\ combined.rows[k]["z_albumin"]
                     = ZScore(combined.rows[k]["albumin"], Stats(AllValuesOf("LBXSAL")))
                /\ InvertedCrpZ(combined.rows[k])
                     = Neg(ZScore(combined.rows[k]["log_hscrp"],
                                  Stats(LogOf(AllValuesOf("LBXHSCRP")))))

\* two cycle tables were concatenated, and a subject's z-score differs from
\* the one the statistics of the subject's own cycle would give
C3_Witness ==
    /\ combined.cols \cap ZColumns # {}
    /\ Len(all_data) >= 2
    /\ \E k \in 1..Len(combined.rows) :
          /\ combined.rows[k]["z_albumin"] # NULL
          /\ combined.rows[k]["z_albumin"]
               # ZScore(combined.rows[k]["albumin"],
                        Stats(Get(all_data[TableOfRow(k)], "LBXSAL",
                                  NaNs(all_data[TableOfRow(k)]))))


\* main's loop over the cycles: the outcome r of one cycle placed before
\* the outcome of the cycles after it
PrependCycle(r, rest) ==
    IF r.err # "none" THEN [all_data |-> <<>>, err |-> r.err]
    ELSE IF rest.err # "none" THEN rest
    ELSE [all_data |-> (IF Len(r.df.rows) > 0 THEN <<r.df>> ELSE <<>>) \o rest.all_data,
          err |-> "none"]

RECURSIVE LoadCycles(_, _, _)
\* main's loop from cycle number c on, over the directories described by ds
LoadCycles(s, ds, c) ==
    IF c > Len(ds) THEN [all_data |-> <<>>, err |-> "none"]
    ELSE PrependCycle(process_cycle(s, CyclesOf(s)[c], DirOf(s, c, ds[c])),
                      LoadCycles(s, ds, c + 1))

\* the exception of the stages of main after pd.concat
DeriveError(s, df) ==
    IF s = "build_cohort" THEN build_iri_cohort(df).err
    ELSE LET r == construct_iri(df)
         IN  IF r.err # "none" THEN r.err ELSE create_derived_variables(r.df).err

\* the exception that ends main on the directories ds ("none": none)
MainError(s, ds) ==
    LET l == LoadCycles(s, ds, 1)
    IN  IF l.err # "none" THEN l.err
        ELSE IF l.all_data = <<>> THEN "none"
        ELSE DeriveError(s, Concat(l.all_data))

\* The directories of the run with every file present and decodable
Healed(ds) == [i \in 1..Len(ds) |-> [ds[i] EXCEPT !.fault = NoFault]]

\* The run lost exactly one file, and it is a component file
OneComponentFailed ==
    /\ FaultsSoFar = 1
    /\ \A i \in 1..Len(dirs) : dirs[i].fault.pat # "DEMO"

\* C7: a run that lost exactly one component file is aborted only if the
\* same run with that file intact is aborted too.
C7_ComponentFailureTolerated ==
    (pc = "error" /\ OneComponentFailed) => MainError(main_script, Healed(dirs)) # "none"

\* The raw columns read with a default in place of a missing column
DefaultedColumns ==
    IF main_script = "build_cohort"
    THEN {"LBXHSCRP", "LBXSAL", "BMXHT", "BMXBMI", "LBXGH"}
    ELSE {"LBXHSCRP", "LBXSAL"}

Derived == pc \in {"derive", "eligibility", "export", "link", "done", "error"}

\* C8: once derivation has run over a table in which a cycle lacks the raw
\* column of a variable, the run has ended in an error naming that column.
C8_MissingMappingReported ==
    \A c \in DefaultedColumns :
        (Derived /\ combined # EmptyDF /\ \E i \in 1..Len(all_data) : c \notin all_data[i].cols)
            => err = "KeyError: " \o c

\* The (cycle, identifier) pairs of the rows of a table, in row order
RowKeys(df) ==
    [k \in 1..Len(df.rows) |-> <<df.rows[k]["cycle"], df.rows[k]["SEQN"]>>]

ConcatKeys == FlattenSeq([i \in 1..Len(all_data) |-> RowKeys(all_data[i])])

\* C9: the combined table, the exported table and the linked table each
\* have exactly the rows of the concatenation of the cycle tables, in order.
C9_RowSetPreserved ==
    /\ combined # EmptyDF => RowKeys(combined) = ConcatKeys
    /\ pc \in {"link", "done"} => RowKeys(exported) = ConcatKeys
    /\ (pc = "done" /\ main_script = "build_cohort") => RowKeys(linked) = ConcatKeys

\* a linked run with an ineligible subject, a subject with a mortality
\* record and an identifier with more than one mortality record
C9_Witness ==
    /\ pc = "done"
    /\ main_script = "build_cohort"
    /\ Len(linked.rows) >= 2
    /\ "permth_exm" \in linked.cols
    /\ \E k \in 1..Len(linked.rows) : linked.rows[k]["eligible"] = 0
    /\ \E k \in 1..Len(linked.rows) : linked.rows[k]["permth_exm"] # NULL
    /\ \E k \in 1..Len(linked.rows) :
          Len(SelectSeq(Concat(LoadAll(mort_files)).rows,
                        LAMBDA rec : rec["SEQN"] = linked.rows[k]["SEQN"])) > 1

\* The records of the mortality files of a cycle for an identifier
OwnRecords(cycle, id) ==
    FlattenSeq([i \in 1..Len(mort_files) |->
        IF mort_files[i].cycle = cycle /\ mort_files[i].ok
        THEN SelectSeq(mort_files[i].records, LAMBDA rec : rec.publicid = id)
        ELSE <<>>])

\* C10: every row of the combined and exported tables carries its cycle
\* tag, and a linked subject has the vital status and the months of
\* follow-up of the mortality record of its own cycle and identifier, or
\* those of a subject without a record when its cycle has none for it.
C10_LinkedByCycleAndIdentifier ==
    /\ combined # EmptyDF => "cycle" \in combined.cols
    /\ pc \in {"link", "done"} => "cycle" \in exported.cols
    /\ (pc = "done" /\ main_script = "build_cohort" /\ LoadAll(mort_files) # <<>>) =>
          \A k \in 1..Len(linked.rows) :
              LET row == linked.rows[k]
                  own == OwnRecords(row["cycle"], row["SEQN"])
              IN  IF own = <<>>
                  THEN row["mortstat"] = 0 /\ row["permth_exm"] = NULL
                  ELSE /\ row["permth_exm"] = own[1].permth_exm
                       /\ row["mortstat"]
                            = IF own[1].mortstat = NULL THEN 0 ELSE own[1].mortstat

-----------------------------------------------------------------------------
(* A run of main with every file present and decodable, the loop over the  *)
(* cycles taken as one step (SpecCohort)                                   *)

\* Most subjects of such a run
MaxCohortRows == 4

\* The subjects of a directory, as indices into CohortProfiles, in file
\* order; none: the directory does not exist
CohortLists ==
    {<<>>} \cup
    {ps \in UNION {[1..n -> 1..Len(CohortProfiles)] : n \in 1..MaxPerCycle} :
        \A j \in 1..(Len(ps) - 1) : ps[j] <= ps[j + 1]}

CohortDir(ps) == [exists |-> ps # <<>>, ps |-> ps, fault |-> NoFault]

\* The directories of a run of script s
CohortDirs(s) ==
    {ds \in [1..Len(CyclesOf(s)) -> {CohortDir(ps) : ps \in CohortLists}] :
        /\ SumSeq([i \in 1..Len(ds) |-> Len(ds[i].ps)]) <= MaxCohortRows
        /\ \E i \in 1..Len(ds) : ds[i].exists}

\* main before its loop over the cycles, the directories being chosen
InitCohort ==
    /\ MergeOff
    /\ main_script \in {"build_cohort", "harmonize"}
    /\ pc = "cycles"
    /\ ci = 1
    /\ dirs \in CohortDirs(main_script)
    /\ all_data = <<>>
    /\ combined = EmptyDF
    /\ exported = EmptyDF
    /\ err = "none"
    /\ warned = {}
    /\ mort_files = <<>>
    /\ linked = EmptyDF

\* The outcome of process_cycle on each directory of ds
CycleOutcomes(s, ds) ==
    Series([c \in 1..Len(ds) |->
              process_cycle(s, CyclesOf(s)[c], DirOf(s, c, ds[c]))])

\* "for cycle in cycles" as a whole: process_cycle and the append for every
\* cycle up to the first one that raises
ProcessCycles ==
    /\ pc = "cycles"
    /\ ci = 1
    /\ \E rs \in {CycleOutcomes(main_script, dirs)} :
          LET failed == {c \in 1..Len(rs) : rs[c].err # "none"}
              last == IF failed = {} THEN Len(rs)
                      ELSE CHOOSE c \in failed : \A e \in failed : c <= e
              done == IF failed = {} THEN last ELSE last - 1
          IN  /\ all_data' = FlattenSeq([c \in 1..done |->
                                 IF Len(rs[c].df.rows) > 0 THEN <<rs[c].df>> ELSE <<>>])
              /\ warned' = UNION {{<<CyclesOf(main_script)[c], f>> : f \in rs[c].warned} :
                                     c \in 1..last}
              /\ err' = IF failed = {} THEN "none" ELSE rs[last].err
              /\ pc' = IF failed = {} THEN "cycles" ELSE "error"
              /\ ci' = last + 1
    /\ UNCHANGED <<main_script, dirs, combined, exported, mort_files, linked>>
    /\ UNCHANGED varsMerge

NextCohort ==
    \/ ProcessCycles
    \/ ConcatCycles
    \/ BuildIriCohort
    \/ ConstructIri
    \/ CreateDerivedVariables
    \/ ApplyEligibilityCriteria
    \/ Export
    \/ LinkMortality

SpecCohort == InitCohort /\ [][NextCohort]_vars

-----------------------------------------------------------------------------
(* Eligibility and the index (C11) *)

\* The eligibility flag has been computed
EligibilitySet == "eligible" \in combined.cols /\ "iri" \in combined.cols

\* C11: every subject whose eligibility flag is 1 has a composite index, so
\* a subject whose hs-CRP is recorded as zero is never eligible.
C11_EligibleHasIndex ==
    EligibilitySet =>
        \A k \in 1..Len(combined.rows) :
            combined.rows[k]["eligible"] = 1 => combined.rows[k]["iri"] # NULL

-----------------------------------------------------------------------------
(* Eligibility and the examination weight (C12) *)

\* The examination weight of a row in the weight field of the row's own
\* cycle: WTMECPRP for 2017-2020, WTMEC2YR otherwise
OwnWeight(row) ==
    IF is_prepandemic_of(row["cycle"]) THEN row["WTMECPRP"] ELSE row["WTMEC2YR"]

\* C12: no subject whose examination weight is missing is eligible, the
\* weight being that of the weight field of the subject's own cycle: a
\* subject is eligible only with that weight, and where the weight is
\* extracted the extracted weight is that field.
C12_EligibleHasOwnWeight ==
    EligibilitySet =>
        \A k \in 1..Len(combined.rows) :
            /\ combined.rows[k]["eligible"] = 1 => OwnWeight(combined.rows[k]) # NULL
            /\ "mec_weight" \in combined.cols =>
                   combined.rows[k]["mec_weight"] = OwnWeight(combined.rows[k])

-----------------------------------------------------------------------------
(* Eligibility and the hs-CRP ceiling (C13) *)

\* The eligibility predicates of the script other than the hs-CRP ceiling
OtherPredicates(row) ==
    IF main_script = "build_cohort"
    THEN row["age_eligible"] = 1 /\ row["iri_available"] = 1 /\ row["mec_weight"] # NULL
    ELSE ~Lt(row["age"], AgeFloorHarmonize) /\ row["pregnant"] # 1
         /\ row["has_iri_components"] = 1

\* C13: a subject with hs-CRP above 10 mg/L who satisfies every other
\* eligibility predicate is eligible, and is excluded from the primary
\* analysis flag only.
C13_CeilingOnlyForPrimaryAnalysis ==
    EligibilitySet =>
        \A k \in 1..Len(combined.rows) :
            Gt(combined.rows[k]["hscrp"], CrpCeiling) =>
                /\ OtherPredicates(combined.rows[k]) => combined.rows[k]["eligible"] = 1
                /\ "primary_analysis" \in combined.cols =>
                       combined.rows[k]["primary_analysis"] = 0

-----------------------------------------------------------------------------
(* Eligibility and the sensitivity flags (C14) *)

\* The sensitivity flags of 02_harmonize_iri.py that a table has
SensitivityFlags ==
    {"primary_analysis", "flag_crp_high", "flag_crp_very_high",
     "flag_albumin_low", "flag_grip_low_p10", "flag_severe_ckd", "flag_cancer"}

\* The eligibility of a row by age, pregnancy and the three measurements
EligibleByCriteria(row) ==
    Flag(~Lt(row["age"], AgeFloorHarmonize) /\ row["pregnant"] # 1
         /\ row["hscrp"] # NULL /\ row["albumin"] # NULL /\ row["grip_max"] # NULL)

\* C14: with the sensitivity flags computed, the eligibility flag of every
\* subject is what age, pregnancy and the three measurements make it,
\* whatever the subject's sensitivity flags are.
C14_FlagsLeaveEligibility ==
    (main_script = "harmonize" /\ "primary_analysis" \in combined.cols) =>
        \A k \in 1..Len(combined.rows) :
            combined.rows[k]["eligible"] = EligibleByCriteria(combined.rows[k])

\* Two eligible subjects, one with sensitivity flags set and out of the
\* primary analysis, one in it
C14_Witness ==
    /\ main_script = "harmonize"
    /\ "primary_analysis" \in combined.cols
    /\ \E k, l \in 1..Len(combined.rows) :
          /\ combined.rows[k]["eligible"] = 1
          /\ combined.rows[k]["flag_crp_high"] = 1
          /\ combined.rows[k]["flag_albumin_low"] = 1
          /\ combined.rows[k]["primary_analysis"] = 0
          /\ combined.rows[l]["eligible"] = 1
          /\ combined.rows[l]["primary_analysis"] = 1

-----------------------------------------------------------------------------
(* The subjects without a mortality record (C15) *)

\* The loaded mortality records of an identifier, in concatenation order
RecordsOf(id) ==
    SelectSeq(Concat(LoadAll(mort_files)).rows, LAMBDA rec : rec["SEQN"] = id)

\* The documented follow-up of a subject without a record, by cycle
DefaultFollowup(cycle) ==
    IF cycle = 2015 THEN FollowupDefault2015 ELSE FollowupDefault2017

\* C15: after the linkage every subject without a matching mortality record
\* has death indicator 0 and the follow-up constant of its cycle, also when
\* no mortality record was loaded at all.
C15_UnmatchedAliveWithDefault ==
    pc = "done" =>
        \A k \in 1..Len(linked.rows) :
            RecordsOf(linked.rows[k]["SEQN"]) = <<>> =>
                /\ linked.rows[k]["mortstat"] = 0
                /\ linked.rows[k]["followup_years"]
                       = DefaultFollowup(linked.rows[k]["cycle"])

-----------------------------------------------------------------------------
(* The deduplication of the mortality records (C16) *)

\* combined_mort of the run: the loaded records after drop_duplicates
Deduplicated == CombinedMort(LoadAll(mort_files)).rows

\* C16: the deduplicated mortality table has one record for an identifier
\* at most, the first of the identifier in the order the files were
\* concatenated, and the join gives every cohort subject that record or
\* none and adds no row.
C16_FirstRecordKept ==
    (pc = "done" /\ LoadAll(mort_files) # <<>>) =>
        /\ \A i, j \in 1..Len(Deduplicated) :
               Deduplicated[i]["SEQN"] = Deduplicated[j]["SEQN"] => i = j
        /\ \A i \in 1..Len(Deduplicated) :
               Deduplicated[i]["permth_exm"]
                   = RecordsOf(Deduplicated[i]["SEQN"])[1]["permth_exm"]
        /\ Len(linked.rows) = Len(exported.rows)
        /\ \A k \in 1..Len(linked.rows) :
               LET recs == RecordsOf(linked.rows[k]["SEQN"])
               IN  linked.rows[k]["permth_exm"]
                       = IF recs = <<>> THEN NULL ELSE recs[1]["permth_exm"]

\* A linked subject whose identifier has two records with different months
\* of follow-up
C16_Witness ==
    /\ pc = "done"
    /\ LoadAll(mort_files) # <<>>
    /\ \E k \in 1..Len(linked.rows) :
          LET recs == RecordsOf(linked.rows[k]["SEQN"])
          IN  /\ Len(recs) = 2
              /\ recs[1]["permth_exm"] # recs[2]["permth_exm"]
              /\ linked.rows[k]["permth_exm"] = recs[1]["permth_exm"]

-----------------------------------------------------------------------------
(* The cause-specific flags of the linked cohort (C17) *)

\* The cause code of the record a linked row was given; none without one
CauseOf(row) ==
    IF RecordsOf(row["SEQN"]) = <<>> THEN NULL
    ELSE RecordsOf(row["SEQN"])[1]["ucod_leading"]

\* A flag of a linked row is set; a flag the table lacks is not
FlagSet(row, name) == name \in DOMAIN row /\ row[name] = 1

\* C17: in the linked cohort the cardiovascular flag is 1 exactly for the
\* dead with cause code 1 or 5, the heart flag exactly for the dead with
\* code 1, the cancer flag exactly for the dead with code 2; nobody alive or
\* without a record has a cause-specific flag set.
C17_CauseFlagsRequireDeath ==
    pc = "done" =>
        \A k \in 1..Len(linked.rows) :
            LET row == linked.rows[k]
                dead == row["mortstat"] = 1
            IN  /\ FlagSet(row, "mort_cv") <=> (dead /\ CauseOf(row) \in {1, 5})
                /\ FlagSet(row, "mort_heart") <=> (dead /\ CauseOf(row) = 1)
                /\ FlagSet(row, "mort_cancer") <=> (dead /\ CauseOf(row) = 2)
                /\ RecordsOf(row["SEQN"]) = <<>> =>
                       ~(FlagSet(row, "mort_cv") \/ FlagSet(row, "mort_heart")
                         \/ FlagSet(row, "mort_cancer"))

\* A linked cohort with a cerebrovascular death (cardiovascular, not heart),
\* a cancer death and a subject alive whose record has a cause code
C17_Witness ==
    /\ pc = "done"
    /\ \E k \in 1..Len(linked.rows) :
          /\ linked.rows[k]["mort_cv"] = 1
          /\ linked.rows[k]["mort_heart"] = 0
          /\ CauseOf(linked.rows[k]) = 5
    /\ \E k \in 1..Len(linked.rows) :
          linked.rows[k]["mort_cancer"] = 1 /\ linked.rows[k]["mort_cv"] = 0
    /\ \E k \in 1..Len(linked.rows) :
          /\ linked.rows[k]["mortstat"] = 0
          /\ CauseOf(linked.rows[k]) = 1
          /\ linked.rows[k]["mort_cv"] = 0
          /\ linked.rows[k]["mort_heart"] = 0

-----------------------------------------------------------------------------
(* The lean-mass sum of a subject without one limb (C18) *)

\* A row lacks the lean mass of one of its four limbs
LimbMissing(row) == \E i \in 1..4 : row[alm_cols[i]] = NULL

\* C18: a subject without the lean mass of one of the four limbs has no
\* lean-mass sum, no lean-mass index, no z-score of it and no composite
\* index.
C18_NoPartialLeanMassSum ==
    (main_script = "build_cohort" /\ IndexBuilt) =>
        \A k \in 1..Len(combined.rows) :
            LimbMissing(combined.rows[k]) =>
                /\ combined.rows[k]["alm_kg"] = NULL
                /\ combined.rows[k]["almi"] = NULL
                /\ combined.rows[k]["z_almi"] = NULL
                /\ combined.rows[k]["iri"] = NULL

-----------------------------------------------------------------------------
(* compute_ldl_friedewald, and the lipid block of create_derived_variables  *)
(* that applies it (SpecLdl).  Cholesterol and triglycerides in mg/dL, LDL  *)
(* in tenths of mg/dL.                                                      *)

\* The triglyceride value from which the equation is not valid
TriglyCeiling == 400

\* a plausible bug: the equation still applied at 400 mg/dL exactly
compute_ldl_above(tchol, hdl, trigly) ==
    Series([k \in 1..Len(tchol) |->
        IF tchol[k] = NULL \/ hdl[k] = NULL \/ trigly[k] = NULL THEN NULL
        ELSE IF trigly[k] > TriglyCeiling THEN NULL
        ELSE 10 * tchol[k] - 10 * hdl[k] - 2 * trigly[k]])

\* ldl = tchol - hdl - (trigly / 5), NaN where an operand is NaN; then
\* ldl[trigly >= 400] = np.nan, the comparison being False for a NaN
compute_ldl_friedewald(tchol, hdl, trigly) ==
    LET ldl == [k \in 1..Len(tchol) |->
                  IF tchol[k] = NULL \/ hdl[k] = NULL \/ trigly[k] = NULL THEN NULL
                  ELSE 10 * tchol[k] - 10 * hdl[k] - 2 * trigly[k]]
    IN  Series([k \in 1..Len(tchol) |->
                  IF trigly[k] # NULL /\ trigly[k] >= TriglyCeiling THEN NULL
                  ELSE ldl[k]])

\* df['tchol'], df['hdl'], df['trigly'] and df['ldl']
Lipids(df) ==
    LET d == SetCol(SetCol(SetCol(df,
                 "tchol", Col(df, "LBXTC")),
                 "hdl", Get(df, "LBDHDD", Get(df, "LBXHDD", NaNs(df)))),
                 "trigly", Col(df, "LBXTR"))
    IN  SetCol(d, "ldl",
               compute_ldl_friedewald(Col(d, "tchol"), Col(d, "hdl"), Col(d, "trigly")))

\* Most subjects of a lipid table
MaxLipidRows == 2

\* The values of a lipid table: total cholesterol, HDL and triglycerides
TcholValues == {NULL, 150, 200}
HdlValues == {NULL, 50}
TriglyValues == {NULL, 100, 399, 400, 450}

\* The HDL column of a cycle's file; none: the file was not merged
HdlNames == {"LBDHDD", "LBXHDD", "none"}

LipidRow(tc, h, tg, name) ==
    IF name = "none" THEN Row([c \in {"LBXTC", "LBXTR"} |->
                                 IF c = "LBXTC" THEN tc ELSE tg])
    ELSE Row([c \in {"LBXTC", "LBXTR", name} |->
                IF c = "LBXTC" THEN tc ELSE IF c = "LBXTR" THEN tg ELSE h])

LipidRows(name) ==
    {LipidRow(tc, h, tg, name) :
        tc \in TcholValues, h \in (IF name = "none" THEN {NULL} ELSE HdlValues),
        tg \in TriglyValues}

LipidTables ==
    UNION {{[cols |-> {"LBXTC", "LBXTR"} \cup ({name} \ {"none"}), rows |-> rs] :
               rs \in UNION {[1..n -> LipidRows(name)] : n \in 1..MaxLipidRows}} :
           name \in HdlNames}

\* create_derived_variables at its lipid block
InitLdl ==
    /\ MergeOff
    /\ main_script = "harmonize"
    /\ pc = "lipids"
    /\ ci = 0
    /\ dirs = <<>>
    /\ all_data = <<>>
    /\ combined \in LipidTables
    /\ exported = EmptyDF
    /\ err = "none"
    /\ warned = {}
    /\ mort_files = <<>>
    /\ linked = EmptyDF

ComputeLdl ==
    /\ pc = "lipids"
    /\ combined' = Lipids(combined)
    /\ pc' = "lipids_done"
    /\ UNCHANGED <<main_script, ci, dirs, all_data, exported, err, warned,
                   mort_files, linked>>
    /\ UNCHANGED varsMerge

NextLdl == ComputeLdl

SpecLdl == InitLdl /\ [][NextLdl]_vars

\* The LDL the equation gives for present values, in tenths of mg/dL
Friedewald(tc, h, tg) == 10 * tc - 10 * h - 2 * tg

\* C19: compute_ldl_friedewald returns a missing LDL for triglycerides of
\* 400 or more whatever the cholesterol values, total cholesterol minus HDL
\* minus a fifth of the triglycerides for triglycerides below 400 with the
\* three values present, and a missing LDL when a value is missing.
C19_FriedewaldValidBelow400 ==
    pc = "lipids_done" =>
        \A k \in 1..Len(combined.rows) :
            LET row == combined.rows[k]
                tc == row["LBXTC"]
                h == IF "LBDHDD" \in combined.cols THEN row["LBDHDD"]
                     ELSE IF "LBXHDD" \in combined.cols THEN row["LBXHDD"] ELSE NULL
                tg == row["LBXTR"]
            IN  /\ (tg # NULL /\ tg >= 400) => row["ldl"] = NULL
                /\ (tc = NULL \/ h = NULL \/ tg = NULL) => row["ldl"] = NULL
                /\ (tc # NULL /\ h # NULL /\ tg # NULL /\ tg < 400) =>
                       row["ldl"] = Friedewald(tc, h, tg)

\* Total cholesterol 200, HDL 50, triglycerides 450: no LDL; next to a
\* subject with triglycerides of 399 and an LDL
C19_Witness ==
    /\ pc = "lipids_done"
    /\ \E k \in 1..Len(combined.rows) :
          /\ combined.rows[k]["tchol"] = 200
          /\ combined.rows[k]["hdl"] = 50
          /\ combined.rows[k]["trigly"] = 450
          /\ combined.rows[k]["ldl"] = NULL
    /\ \E k \in 1..Len(combined.rows) :
          /\ combined.rows[k]["trigly"] = 399
          /\ combined.rows[k]["ldl"] = 702

-----------------------------------------------------------------------------
(* The standard deviation of a sex subgroup (C20) *)

\* subset.std() of the cells of sex s
SubgroupStd(series, sex, s) == StdOf(Stats(Masked(series, sex, s)))

\* The standard deviations build_iri_cohort divides by: those of the sexes
\* that pass "if std_almi > 0"
Divisors_build(series, sex) ==
    {SubgroupStd(series, sex, s) :
        s \in {t \in {1, 2} : /\ SubgroupStd(series, sex, t) # NULL
                             /\ SubgroupStd(series, sex, t) > 0}}

\* The standard deviations construct_iri divides by: those of the sexes that
\* pass "if mask.sum() > 0"
Divisors_harmonize(series, sex) ==
    {SubgroupStd(series, sex, s) :
        s \in {t \in {1, 2} : \E k \in 1..Len(sex) : sex[k] = t}}

\* The column standardized within sex, and the sex column, of the script
StratifiedColumn ==
    IF main_script = "build_cohort" THEN Col(combined, "almi")
    ELSE Col(combined, "grip_max")
SexColumn ==
    IF main_script = "build_cohort" THEN Col(combined, "sex")
    ELSE Col(combined, "RIAGENDR")

\* The standard deviations the sex-stratified standardization divided by
StratifiedDivisors ==
    IF main_script = "build_cohort" THEN Divisors_build(StratifiedColumn, SexColumn)
    ELSE Divisors_harmonize(StratifiedColumn, SexColumn)

\* The subgroup of row k has a zero or an undefined standard deviation
Degenerate(k) ==
    /\ SexColumn[k] \in {1, 2}
    /\ SubgroupStd(StratifiedColumn, SexColumn, SexColumn[k]) \in {NULL, 0}

\* Every subject of a subgroup with a zero or undefined standard deviation
\* has a missing stratified z-score
DegenerateMissing ==
    IndexBuilt =>
        \A k \in 1..Len(combined.rows) :
            Degenerate(k) => ThirdZ(combined.rows[k]) = NULL

\* C20: where a sex subgroup's standard deviation is zero or undefined,
\* every subject of the subgroup has a missing stratified z-score, and the
\* standardization divided by no zero and no undefined standard deviation.
C20_NoDivisionByDegenerateStd ==
    /\ DegenerateMissing
    /\ IndexBuilt => \A sd \in StratifiedDivisors : sd # NULL /\ sd # 0

-----------------------------------------------------------------------------
(* Derived clinical variables: 02_harmonize_iri.py create_derived_variables *)
(* and its helpers, and the covariate block of build_iri_cohort.  Each is   *)
(* a function of the columns of one table and is applied to tables drawn    *)
(* from small sets of values (SpecDerived).                                 *)

\* Serum creatinine is in hundredths of mg/dL; ratios, powers and the eGFR
\* are in thousandths.

\* float infinity (0.0 ** negative)
Inf == 999999

\* kappa in hundredths, alpha and the female multiplier in thousandths
kappa_f == 70
alpha_f == -241
kappa_m == 90
alpha_m == -302
FemaleMult == 1012
MaxExponent == -1200

\* creatinine / kappa
Ratio(scr, kappa) ==
    IF scr = NULL THEN NULL
    ELSE IF scr < 0 THEN -((-scr * 1000) \div kappa)
    ELSE (scr * 1000) \div kappa

\* np.minimum and np.maximum with 1: NaN propagates
Minimum1(x) == IF x = NULL THEN NULL ELSE IF x < 1000 THEN x ELSE 1000
Maximum1(x) == IF x = NULL THEN NULL ELSE IF x > 1000 THEN x ELSE 1000

\* base ** exponent for the bases and exponents the equation meets
PowTable ==
    [p \in {<<555, -302>>, <<714, -241>>, <<777, -302>>, <<1000, -1200>>,
            <<1000, -302>>, <<1000, -241>>, <<1285, -1200>>, <<1333, -1200>>,
            <<1714, -1200>>} |->
        CASE p = <<555, -302>> -> 1195 [] p = <<714, -241>> -> 1085
          [] p = <<777, -302>> -> 1079 [] p = <<1285, -1200>> -> 740
          [] p = <<1333, -1200>> -> 708 [] p = <<1714, -1200>> -> 524
          [] OTHER -> 1000]

\* x ** e for a negative fractional e: NaN for NaN and for a negative base,
\* inf for the base 0
Power(x, e) ==
    IF x = NULL \/ x < 0 THEN NULL
    ELSE IF x = 0 THEN Inf
    ELSE PowTable[<<x, e>>]

\* 0.9938 ** age
AgeTable == [a \in {40, 70} |-> IF a = 40 THEN 780 ELSE 647]

AgeTerm(a) == IF a = NULL THEN NULL ELSE AgeTable[a]

\* the product of two floats: NaN propagates, inf times a positive is inf
Times(x, y) ==
    IF x = NULL \/ y = NULL THEN NULL
    ELSE IF x = Inf \/ y = Inf THEN (IF x = 0 \/ y = 0 THEN NULL ELSE Inf)
    ELSE (x * y) \div 1000

\* 142 * min(Scr/kappa, 1)^alpha * max(Scr/kappa, 1)^-1.200 * 0.9938^age * m
CkdEpi(scr, a, kappa, alpha, mult) ==
    Times(Times(Times(Times(142000, Power(Minimum1(Ratio(scr, kappa)), alpha)),
                      Power(Maximum1(Ratio(scr, kappa)), MaxExponent)),
                AgeTerm(a)),
          mult)

\* 02_build_cohort.py calculate_egfr_ckdepi2021: np.where(sex == 2, ...)
\* picks the female parameters for sex code 2 and the male ones otherwise
calculate_egfr_ckdepi2021(scr, ages, sexes) ==
    Series([k \in 1..Len(scr) |->
        IF sexes[k] = 2 THEN CkdEpi(scr[k], ages[k], kappa_f, alpha_f, FemaleMult)
        ELSE CkdEpi(scr[k], ages[k], kappa_m, alpha_m, 1000)])

\* 02_harmonize_iri.py compute_egfr_ckdepi_2021: NaN unless the female or
\* the male mask selects the row
compute_egfr_ckdepi_2021(creatinine, ages, sexes) ==
    Series([k \in 1..Len(creatinine) |->
        IF sexes[k] = 2
        THEN CkdEpi(creatinine[k], ages[k], kappa_f, alpha_f, FemaleMult)
        ELSE IF sexes[k] = 1
        THEN CkdEpi(creatinine[k], ages[k], kappa_m, alpha_m, 1000)
        ELSE NULL])

\* eGFR thresholds of the CKD flags, in thousandths
EgfrBelow60 == 60000
EgfrSevere == 30000

\* build_iri_cohort: scr, egfr, ckd
Egfr_build(df) ==
    LET d == SetCol(df, "egfr",
                    calculate_egfr_ckdepi2021(Get(df, "LBXSCR", NaNs(df)),
                                              Col(df, "age"), Col(df, "sex")))
    IN  SetCol(d, "ckd",
               Series([k \in 1..Len(d.rows) |-> Flag(Lt(d.rows[k]["egfr"], EgfrBelow60))]))

\* create_derived_variables: creatinine, egfr, egfr_lt60, flag_severe_ckd
\* (ckd_stage, a pd.cut of egfr, is left out)
Egfr_harmonize(df) ==
    LET c == SetCol(df, "creatinine", Col(df, "LBXSCR"))
        d == SetCol(c, "egfr",
                    compute_egfr_ckdepi_2021(Col(c, "creatinine"), Col(c, "age"),
                                             Col(c, "sex")))
        e == SetCol(d, "egfr_lt60",
               Series([k \in 1..Len(d.rows) |-> Flag(Lt(d.rows[k]["egfr"], EgfrBelow60))]))
    IN  SetCol(e, "flag_severe_ckd",
               Series([k \in 1..Len(e.rows) |-> Flag(Lt(e.rows[k]["egfr"], EgfrSevere))]))

\* The rows over the columns cols with the cells of column c drawn from V(c)
RowsOver(cols, V(_)) ==
    {r \in [cols -> UNION {V(c) : c \in cols}] : \A c \in cols : r[c] \in V(c)}

\* The tables of one to n such rows
TablesOver(cols, V(_), n) ==
    {[cols |-> cols, rows |-> rs] :
        rs \in UNION {[1..k -> RowsOver(cols, V)] : k \in 1..n}}

ScrValues == {NULL, -50, 0, 50, 70, 90, 120}
AgeValues == {NULL, 40, 70}
SexValues == {NULL, 1, 2}

EgfrValues(c) ==
    CASE c = "LBXSCR" -> ScrValues [] c = "age" -> AgeValues [] c = "sex" -> SexValues

\* One subject with or (02_build_cohort.py reads it with df.get) without a
\* creatinine column
EgfrTables(script) ==
    TablesOver({"LBXSCR", "age", "sex"}, EgfrValues, 1)
    \cup (IF script = "build_cohort"
          THEN TablesOver({"age", "sex"}, EgfrValues, 1) ELSE {})

ComputeEgfr ==
    /\ pc = "egfr"
    /\ combined' = (IF main_script = "build_cohort" THEN Egfr_build(combined)
                    ELSE Egfr_harmonize(combined))
    /\ pc' = "egfr_done"
    /\ UNCHANGED <<main_script, ci, dirs, all_data, exported, err, warned,
                   mort_files, linked>>
    /\ UNCHANGED varsMerge

\* The serum creatinine of a subject (missing without the column)
ScrOf(row) == IF "LBXSCR" \in DOMAIN row THEN row["LBXSCR"] ELSE NULL

\* C21: a zero or negative serum creatinine yields a missing eGFR, never an
\* infinite or finite value, and the CKD flags computed from it are those of
\* a missing eGFR.
C21_InvalidCreatinineMissing ==
    pc = "egfr_done" =>
        \A k \in 1..Len(combined.rows) :
            (ScrOf(combined.rows[k]) # NULL /\ ScrOf(combined.rows[k]) <= 0)
                => combined.rows[k]["egfr"] = NULL

\* The estimate the equation gives: female parameters for sex code 2, male
\* parameters for sex code 1, missing when an input is missing
EgfrByEquation(scr, a, s) ==
    IF scr = NULL \/ a = NULL \/ s = NULL THEN NULL
    ELSE IF s = 2 THEN CkdEpi(scr, a, 70, -241, 1012)
    ELSE IF s = 1 THEN CkdEpi(scr, a, 90, -302, 1000)
    ELSE NULL

\* C22: the eGFR of every subject is the value of the CKD-EPI 2021 equation
\* with the parameters of the subject's sex, missing when creatinine, age or
\* sex is missing, and the two implementations agree on the subject.
C22_EgfrEquation ==
    pc = "egfr_done" =>
        /\ \A k \in 1..Len(combined.rows) :
              combined.rows[k]["egfr"] =
                  EgfrByEquation(ScrOf(combined.rows[k]), combined.rows[k]["age"],
                                 combined.rows[k]["sex"])
        /\ calculate_egfr_ckdepi2021(Get(combined, "LBXSCR", NaNs(combined)),
                                     Col(combined, "age"), Col(combined, "sex"))
           = compute_egfr_ckdepi_2021(Get(combined, "LBXSCR", NaNs(combined)),
                                      Col(combined, "age"), Col(combined, "sex"))

\* Mean pressures are in tenths of mmHg: 130 and 80 mmHg
SbpThreshold == 1300
DbpThreshold == 800

\* 02_harmonize_iri.py define_hypertension: 1 for a criterion met, NaN when
\* none is met and the three inputs are all NaN, 0 otherwise
define_hypertension(df) ==
    LET sbp == Get(df, "mean_sbp", NaNs(df))
        dbp == Get(df, "mean_dbp", NaNs(df))
        bp_med == Get(df, "BPQ040A", NaNs(df))
    IN  Series([k \in 1..Len(df.rows) |->
            IF Ge(sbp[k], SbpThreshold) \/ Ge(dbp[k], DbpThreshold) \/ bp_med[k] = 1
            THEN 1
            ELSE IF sbp[k] = NULL /\ dbp[k] = NULL /\ bp_med[k] = NULL THEN NULL
            ELSE 0])

\* build_iri_cohort: the three comparisons or-ed, as a float
Hypertension_build(df) ==
    LET bp_med == Get(df, "BPQ040A", NaNs(df))
    IN  Series([k \in 1..Len(df.rows) |->
            Flag(Ge(df.rows[k]["mean_sbp"], SbpThreshold)
                 \/ Ge(df.rows[k]["mean_dbp"], DbpThreshold)
                 \/ bp_med[k] = 1)])

HypertensionValues(c) ==
    CASE c = "mean_sbp" -> {NULL, 1200, 1295, 1300}
      [] c = "mean_dbp" -> {NULL, 700, 800}
      [] c = "BPQ040A" -> {NULL, 1, 2}

\* One subject, with or without the medication column
HypertensionTables ==
    TablesOver({"mean_sbp", "mean_dbp", "BPQ040A"}, HypertensionValues, 1)
    \cup TablesOver({"mean_sbp", "mean_dbp"}, HypertensionValues, 1)

DefineHypertension ==
    /\ pc = "hypertension"
    /\ combined' = SetCol(combined, "hypertension",
                          IF main_script = "build_cohort"
                          THEN Hypertension_build(combined)
                          ELSE define_hypertension(combined))
    /\ pc' = "hypertension_done"
    /\ UNCHANGED <<main_script, ci, dirs, all_data, exported, err, warned,
                   mort_files, linked>>
    /\ UNCHANGED varsMerge

\* A cell of a row, missing when the table has no such column
CellOf(row, c) == IF c \in DOMAIN row THEN row[c] ELSE NULL

\* The flag the rule gives a subject
HypertensionByRule(row) ==
    IF \/ (row["mean_sbp"] # NULL /\ row["mean_sbp"] >= 1300)
       \/ (row["mean_dbp"] # NULL /\ row["mean_dbp"] >= 800)
       \/ CellOf(row, "BPQ040A") = 1
    THEN 1
    ELSE IF row["mean_sbp"] = NULL /\ row["mean_dbp"] = NULL
            /\ CellOf(row, "BPQ040A") = NULL
    THEN NULL
    ELSE 0

\* C23: the hypertension flag of every subject is 1 when mean systolic is at
\* least 130, mean diastolic at least 80 or the medication field is 1; it is
\* missing exactly when the three inputs are all missing; otherwise it is 0.
C23_HypertensionFlag ==
    pc = "hypertension_done" =>
        \A k \in 1..Len(combined.rows) :
            combined.rows[k]["hypertension"] = HypertensionByRule(combined.rows[k])

\* HbA1c is in tenths of a percent (6.5 %), fasting glucose in mg/dL
Hba1cThreshold == 65
GlucoseThreshold == 126

\* 02_harmonize_iri.py define_diabetes
define_diabetes(df) ==
    LET hba1c == Get(df, "LBXGH", NaNs(df))
        glucose == Get(df, "LBXGLU", NaNs(df))
        told == Get(df, "DIQ010", NaNs(df))
        insulin == Get(df, "DIQ050", NaNs(df))
        oral_med == Get(df, "DIQ070", NaNs(df))
    IN  Series([k \in 1..Len(df.rows) |->
            Flag(Ge(hba1c[k], Hba1cThreshold) \/ Ge(glucose[k], GlucoseThreshold)
                 \/ told[k] = 1 \/ insulin[k] = 1 \/ oral_med[k] = 1)])

\* build_iri_cohort: HbA1c, glucose and the told-by-a-doctor field
Diabetes_build(df) ==
    LET hba1c == Get(df, "LBXGH", NaNs(df))
        glucose == Get(df, "LBXGLU", NaNs(df))
        dm_told == Get(df, "DIQ010", NaNs(df))
    IN  Series([k \in 1..Len(df.rows) |->
            Flag(Ge(hba1c[k], Hba1cThreshold) \/ Ge(glucose[k], GlucoseThreshold)
                 \/ dm_told[k] = 1)])

DiabetesValues(c) ==
    CASE c = "LBXGH" -> {NULL, 60, 65}
      [] c = "LBXGLU" -> {NULL, 100, 126}
      [] c = "DIQ010" -> {NULL, 1, 2, 3}
      [] c = "DIQ050" -> {NULL, 1, 2}
      [] c = "DIQ070" -> {NULL, 1, 2}

\* One subject of a cycle with the laboratory and questionnaire files, with
\* the laboratory files only, or with HbA1c only
DiabetesTables ==
    TablesOver({"LBXGH", "LBXGLU", "DIQ010", "DIQ050", "DIQ070"}, DiabetesValues, 1)
    \cup TablesOver({"LBXGH", "LBXGLU"}, DiabetesValues, 1)
    \cup TablesOver({"LBXGH"}, DiabetesValues, 1)

DefineDiabetes ==
    /\ pc = "diabetes"
    /\ combined' = SetCol(combined, "diabetes",
                          IF main_script = "build_cohort"
                          THEN Diabetes_build(combined)
                          ELSE define_diabetes(combined))
    /\ pc' = "diabetes_done"
    /\ UNCHANGED <<main_script, ci, dirs, all_data, exported, err, warned,
                   mort_files, linked>>
    /\ UNCHANGED varsMerge

\* At least one of the five criteria holds for a subject
DiabetesCriterion(row) ==
    \/ (CellOf(row, "LBXGH") # NULL /\ CellOf(row, "LBXGH") >= 65)
    \/ (CellOf(row, "LBXGLU") # NULL /\ CellOf(row, "LBXGLU") >= 126)
    \/ CellOf(row, "DIQ010") = 1
    \/ CellOf(row, "DIQ050") = 1
    \/ CellOf(row, "DIQ070") = 1

\* C24: the diabetes flag of every subject is 1 exactly when HbA1c is at
\* least 6.5, fasting glucose at least 126, or the prior-diagnosis, insulin or
\* oral-medication field is 1.
C24_DiabetesFlag ==
    pc = "diabetes_done" =>
        \A k \in 1..Len(combined.rows) :
            (combined.rows[k]["diabetes"] = 1) <=> DiabetesCriterion(combined.rows[k])

\* The prior-diagnosis fields: congestive heart failure, coronary heart
\* disease, angina, myocardial infarction, stroke
cvd_fields == {"MCQ160B", "MCQ160C", "MCQ160D", "MCQ160E", "MCQ160F"}

\* One field alone
cvd_chf_only(df) ==
    LET chf == Get(df, "MCQ160B", Const(df, 2))
    IN  Series([k \in 1..Len(df.rows) |-> Flag(chf[k] = 1)])

\* define_cvd_history of 02_harmonize_iri.py and the CVD block of
\* build_iri_cohort: each field read with the default 2 ("no"), the five
\* comparisons with 1 or-ed, as a float
define_cvd_history(df) ==
    LET chf == Get(df, "MCQ160B", Const(df, 2))
        chd == Get(df, "MCQ160C", Const(df, 2))
        angina == Get(df, "MCQ160D", Const(df, 2))
        mi == Get(df, "MCQ160E", Const(df, 2))
        stroke == Get(df, "MCQ160F", Const(df, 2))
    IN  Series([k \in 1..Len(df.rows) |->
            Flag(chf[k] = 1 \/ chd[k] = 1 \/ angina[k] = 1 \/ mi[k] = 1
                 \/ stroke[k] = 1)])

\* 1 yes, 2 no, 9 don't know, or no answer
CvdValues(c) == {NULL, 1, 2, 9}

\* One subject of a table with any subset of the five fields
CvdTables ==
    UNION {TablesOver(cs, CvdValues, 1) : cs \in SUBSET cvd_fields}

DefineCvdHistory ==
    /\ pc = "cvd_history"
    /\ combined' = SetCol(combined, "cvd_history", define_cvd_history(combined))
    /\ pc' = "cvd_history_done"
    /\ UNCHANGED <<main_script, ci, dirs, all_data, exported, err, warned,
                   mort_files, linked>>
    /\ UNCHANGED varsMerge

\* C25: the cardiovascular history flag of every subject is 1 exactly when
\* one of the five prior-diagnosis fields present in the table is 1 for the
\* subject; it is never missing, and it is 0 when the table has none of the
\* five fields.
C25_CvdHistoryFlag ==
    pc = "cvd_history_done" =>
        \A k \in 1..Len(combined.rows) :
            /\ combined.rows[k]["cvd_history"] \in {0, 1}
            /\ (combined.rows[k]["cvd_history"] = 1)
                   <=> (\E c \in cvd_fields \cap DOMAIN combined.rows[k] :
                            combined.rows[k][c] = 1)
            /\ (cvd_fields \cap combined.cols = {})
                   => combined.rows[k]["cvd_history"] = 0

\* Reached: a subject flagged for a stroke alone, in a table without the
\* angina field
C25_Witness ==
    /\ pc = "cvd_history_done"
    /\ combined.cols \cap cvd_fields = cvd_fields \ {"MCQ160D"}
    /\ combined.rows[1]["MCQ160F"] = 1
    /\ \A c \in {"MCQ160B", "MCQ160C", "MCQ160E"} : combined.rows[1][c] = 2
    /\ combined.rows[1]["cvd_history"] = 1

\* MET constants and the weekly maximum (24 h * 60 min * 7 days)
MetVigorous == 8
MetModerate == 4
MetCap == 10080

\* The four activity categories: the "does this activity" field, the days
\* per week, the minutes per day, and the MET constant
pa_categories ==
    <<[flag |-> "PAQ605", days |-> "PAQ610", minutes |-> "PAD615", met |-> MetVigorous],
      [flag |-> "PAQ620", days |-> "PAQ625", minutes |-> "PAD630", met |-> MetModerate],
      [flag |-> "PAQ650", days |-> "PAQ655", minutes |-> "PAD660", met |-> MetVigorous],
      [flag |-> "PAQ665", days |-> "PAQ670", minutes |-> "PAD675", met |-> MetModerate]>>

\* series.fillna(0), one cell
FillNa(v) == IF v = NULL THEN 0 ELSE v

\* np.where(flag == 1, met * days.fillna(0) * min.fillna(0), 0) for one
\* category; an absent flag column reads as 2, absent days or minutes as 0
CategoryMet(df, cat) ==
    LET flag == Get(df, cat.flag, Const(df, 2))
        days == Get(df, cat.days, Const(df, 0))
        minutes == Get(df, cat.minutes, Const(df, 0))
    IN  Series([k \in 1..Len(df.rows) |->
            IF flag[k] = 1 THEN cat.met * FillNa(days[k]) * FillNa(minutes[k]) ELSE 0])

\* vig_work_met + mod_work_met + vig_rec_met + mod_rec_met
TotalMet(df) ==
    Series([k \in 1..Len(df.rows) |->
        SumSeq([i \in 1..4 |-> CategoryMet(df, pa_categories[i])[k]])])

\* The total without the cap
met_min_uncapped(df) == TotalMet(df)

\* compute_physical_activity_met_min: np.minimum(met_min, 10080)
compute_physical_activity_met_min(df) ==
    LET total == TotalMet(df)
    IN  Series([k \in 1..Len(df.rows) |->
            IF total[k] < MetCap THEN total[k] ELSE MetCap])

\* What one category's three fields hold for a subject: not done, three
\* days of 60 minutes, seven days of 300 minutes, done with the days
\* unanswered, days and minutes given for an unanswered flag
PaAnswers == {<<2, NULL, NULL>>, <<1, 3, 60>>, <<1, 7, 300>>, <<1, NULL, 60>>,
              <<NULL, 7, 300>>}

\* The row holding the answers ans[i] for the first n categories
PaRow(ans, n) ==
    Row([c \in UNION {{pa_categories[i].flag, pa_categories[i].days,
                       pa_categories[i].minutes} : i \in 1..n} |->
        LET i == CHOOSE j \in 1..n : c \in {pa_categories[j].flag,
                                            pa_categories[j].days,
                                            pa_categories[j].minutes}
        IN  IF c = pa_categories[i].flag THEN ans[i][1]
            ELSE IF c = pa_categories[i].days THEN ans[i][2]
            ELSE ans[i][3]])

\* One subject of a table with the fields of the first n categories (n = 0:
\* no activity questionnaire)
MetTables ==
    {[cols |-> DOMAIN PaRow(ans, n), rows |-> <<PaRow(ans, n)>>] :
        ans \in [1..4 -> PaAnswers], n \in {0, 2, 4}}

ComputeMetMin ==
    /\ pc = "met_min"
    /\ main_script = "harmonize"
    /\ combined' = SetCol(combined, "met_min_week",
                          compute_physical_activity_met_min(combined))
    /\ pc' = "met_min_done"
    /\ UNCHANGED <<main_script, ci, dirs, all_data, exported, err, warned,
                   mort_files, linked>>
    /\ UNCHANGED varsMerge

\* MET * days * minutes of a category a subject does (a missing answer
\* counts as 0), otherwise 0
MetOfCategory(row, f, d, mn, met) ==
    IF CellOf(row, f) = 1
    THEN met * (IF CellOf(row, d) = NULL THEN 0 ELSE row[d])
             * (IF CellOf(row, mn) = NULL THEN 0 ELSE row[mn])
    ELSE 0

\* The sum over vigorous work, moderate work, vigorous recreation and
\* moderate recreation
MetSum(row) ==
    MetOfCategory(row, "PAQ605", "PAQ610", "PAD615", 8)
    + MetOfCategory(row, "PAQ620", "PAQ625", "PAD630", 4)
    + MetOfCategory(row, "PAQ650", "PAQ655", "PAD660", 8)
    + MetOfCategory(row, "PAQ665", "PAQ670", "PAD675", 4)

\* C26: the weekly MET-minutes of every subject are the sum over the four
\* categories of 8 (vigorous) or 4 (moderate) times days times minutes, a
\* category counting only when its field is 1, capped at 10080; the result
\* lies between 0 and 10080.
C26_MetMinutes ==
    pc = "met_min_done" =>
        \A k \in 1..Len(combined.rows) :
            /\ combined.rows[k]["met_min_week"] =
                   (IF MetSum(combined.rows[k]) > 10080 THEN 10080
                    ELSE MetSum(combined.rows[k]))
            /\ combined.rows[k]["met_min_week"] \in 0..10080

\* Reached: a subject with seven days of 300 minutes of vigorous work and
\* three days of 60 minutes of moderate work (17520 before the cap), who
\* answers "no" to vigorous recreation
C26_Witness ==
    /\ pc = "met_min_done"
    /\ MetSum(combined.rows[1]) = 16800 + 720
    /\ CellOf(combined.rows[1], "PAQ650") = 2
    /\ combined.rows[1]["met_min_week"] = 10080

\* Readings in kg: missing, negative, zero and positive ones
GripValues(c) ==
    IF c \in {"MGXH1T1", "MGXH1T2", "MGXH2T1"} THEN {NULL, -5, 0, 30, 40}
    ELSE {NULL, 0, 35}

\* One subject of a table with any subset of three of the trial columns, or
\* with a first-hand trial and two second-hand trials
GripTables ==
    UNION {TablesOver(cs, GripValues, 1) : cs \in SUBSET {"MGXH1T1", "MGXH1T2", "MGXH2T1"}}
    \cup TablesOver({"MGXH1T1", "MGXH2T2", "MGXH2T3"}, GripValues, 1)

\* process_cycle: df['grip_max'] = compute_max_grip_strength(df)
ComputeMaxGrip ==
    /\ pc = "grip_max"
    /\ main_script = "harmonize"
    /\ combined' = SetCol(combined, "grip_max", compute_max_grip_strength(combined))
    /\ pc' = "grip_max_done"
    /\ UNCHANGED <<main_script, ci, dirs, all_data, exported, err, warned,
                   mort_files, linked>>
    /\ UNCHANGED varsMerge

\* The strictly positive readings of a subject in the trial columns its
\* table has
PositiveReadings(row) ==
    {row[c] : c \in {d \in DOMAIN row : \E i \in 1..6 : grip_cols[i] = d
                                        /\ row[d] # NULL /\ row[d] > 0}}

\* C27: the maximum grip strength of every subject is the largest strictly
\* positive reading among the trial columns of the table; it is missing when
\* the subject has no positive reading or the table no trial column, and a
\* value returned is strictly positive.
C27_MaxGripPositive ==
    pc = "grip_max_done" =>
        \A k \in 1..Len(combined.rows) :
            LET readings == PositiveReadings(combined.rows[k])
                grip == combined.rows[k]["grip_max"]
            IN  /\ (readings = {}) <=> (grip = NULL)
                /\ grip # NULL =>
                      /\ grip > 0
                      /\ grip \in readings
                      /\ \A x \in readings : x <= grip

\* Reached: a subject with a negative, a zero and a positive reading whose
\* maximum is the positive one
C27_Witness ==
    /\ pc = "grip_max_done"
    /\ combined.cols = {"MGXH1T1", "MGXH1T2", "MGXH2T1", "grip_max"}
    /\ combined.rows[1]["MGXH1T1"] = -5
    /\ combined.rows[1]["MGXH1T2"] = 0
    /\ combined.rows[1]["MGXH2T1"] = 30
    /\ combined.rows[1]["grip_max"] = 30

\* Blood-pressure readings are in mmHg, their means in tenths of mmHg.

\* The blood-pressure columns a combined table can have: the auscultatory
\* readings of the cycles before 2017, the oscillometric readings of
\* 2017-2020, and the copies of the latter that the second merge of the
\* BPXO file adds in 02_build_cohort.py
bp_columns ==
    <<"BPXSY1", "BPXSY2", "BPXDI1", "BPXOSY1", "BPXOSY2", "BPXODI1",
      "BPXOSY1_BPXO", "BPXOSY2_BPXO", "BPXODI1_BPXO">>

\* 'BPXSY' in c or 'BPXOSY' in c;  'BPXDI' in c or 'BPXODI' in c
IsSbpName(c) ==
    c \in {"BPXSY1", "BPXSY2", "BPXOSY1", "BPXOSY2", "BPXOSY1_BPXO", "BPXOSY2_BPXO"}
IsDbpName(c) == c \in {"BPXDI1", "BPXODI1", "BPXODI1_BPXO"}

\* a mean that counts a missing reading as 0
RowMeanFillZero(row, names) ==
    IF Len(names) = 0 THEN NULL
    ELSE (10 * SumSeq([i \in 1..Len(names) |-> FillNa(row[names[i]])])) \div Len(names)

\* df[names].mean(axis=1) for one row: the mean of the cells that are not
\* NaN, NaN when there is none
RowMean(row, names) ==
    LET present == SelectSeq(names, LAMBDA c : row[c] # NULL)
    IN  IF Len(present) = 0 THEN NULL
        ELSE (10 * SumSeq([i \in 1..Len(present) |-> row[present[i]]]))
                 \div Len(present)

\* df[names].mean(axis=1) if names else NaN
MeanOver(df, names) ==
    IF Len(names) = 0 THEN NaNs(df)
    ELSE Series([k \in 1..Len(df.rows) |-> RowMean(df.rows[k], names)])

\* 02_harmonize_iri.py compute_mean_bp: the readings of the cycle's device
\* among the columns of the table
compute_mean_bp(df, cycle) ==
    LET sbp == IF is_prepandemic_of(cycle)
               THEN <<"BPXOSY1", "BPXOSY2", "BPXOSY3">>
               ELSE <<"BPXSY1", "BPXSY2", "BPXSY3", "BPXSY4">>
        dbp == IF is_prepandemic_of(cycle)
               THEN <<"BPXODI1", "BPXODI2", "BPXODI3">>
               ELSE <<"BPXDI1", "BPXDI2", "BPXDI3", "BPXDI4">>
    IN  [mean_sbp |-> MeanOver(df, SelectSeq(sbp, LAMBDA c : c \in df.cols)),
         mean_dbp |-> MeanOver(df, SelectSeq(dbp, LAMBDA c : c \in df.cols))]

\* build_iri_cohort lines 220-224 and create_derived_variables lines
\* 557-560: every column of the table whose name contains the systolic
\* (diastolic) prefix of either device
MeanBpColumns(df) ==
    SetCol(SetCol(df,
        "mean_sbp", MeanOver(df, SelectSeq(bp_columns,
                                 LAMBDA c : c \in df.cols /\ IsSbpName(c)))),
        "mean_dbp", MeanOver(df, SelectSeq(bp_columns,
                                 LAMBDA c : c \in df.cols /\ IsDbpName(c))))

\* The readings of one subject: two systolic and one diastolic
BpReadings == {<<120, 131, 80>>, <<NULL, 130, NULL>>, <<NULL, NULL, NULL>>,
               <<141, NULL, 75>>}

\* A subject of a cycle before 2017 and one of 2017-2020 (with the copies
\* of the second merge when dup)
BpRowOld(cycle, r) ==
    Row([c \in {"cycle", "BPXSY1", "BPXSY2", "BPXDI1"} |->
        CASE c = "cycle" -> cycle [] c = "BPXSY1" -> r[1] [] c = "BPXSY2" -> r[2]
          [] c = "BPXDI1" -> r[3]])

BpRowNew(r, dup) ==
    Row([c \in {"cycle", "BPXOSY1", "BPXOSY2", "BPXODI1"}
               \cup (IF dup THEN {"BPXOSY1_BPXO", "BPXOSY2_BPXO", "BPXODI1_BPXO"}
                     ELSE {}) |->
        CASE c = "cycle" -> 2017
          [] c \in {"BPXOSY1", "BPXOSY1_BPXO"} -> r[1]
          [] c \in {"BPXOSY2", "BPXOSY2_BPXO"} -> r[2]
          [] OTHER -> r[3]])

\* Most subjects of a cycle
MaxBpRows == 2

TableOfRows(rs) == [cols |-> IF rs = <<>> THEN {} ELSE DOMAIN rs[1], rows |-> rs]

\* The cycle tables of a run: 02_build_cohort.py merges the BPXO file of
\* 2017-2020 twice (patterns BPX and BPXO), 02_harmonize_iri.py once
BpOldTables(script) ==
    {TableOfRows([k \in 1..Len(rs) |->
                    BpRowOld(IF script = "build_cohort" THEN 2015 ELSE 2013, rs[k])]) :
        rs \in UNION {[1..n -> BpReadings] : n \in 1..MaxBpRows}}

BpNewTables(script) ==
    {TableOfRows([k \in 1..Len(rs) |-> BpRowNew(rs[k], script = "build_cohort")]) :
        rs \in UNION {[1..n -> BpReadings] : n \in 1..MaxBpRows}}

\* combined: one cycle alone, or the concatenation of the two
BpTables(script) ==
    BpOldTables(script) \cup BpNewTables(script)
    \cup {Concat(<<a, b>>) : a \in BpOldTables(script), b \in BpNewTables(script)}

\* The blood-pressure block: in 02_harmonize_iri.py the per-cycle means of
\* lines 551-554 are assigned first (the assignment can raise) and then
\* overwritten by lines 557-560
ComputeMeanBp ==
    /\ pc = "mean_bp"
    /\ IF main_script = "harmonize" /\ BpZipError(combined) # "none"
       THEN /\ err' = BpZipError(combined)
            /\ pc' = "error"
            /\ UNCHANGED combined
       ELSE /\ combined' = MeanBpColumns(combined)
            /\ pc' = "mean_bp_done"
            /\ UNCHANGED err
    /\ UNCHANGED <<main_script, ci, dirs, all_data, exported, warned,
                   mort_files, linked>>
    /\ UNCHANGED varsMerge

\* The mean of the non-missing ones of two readings, in tenths
MeanOfTwo(a, b) ==
    IF a = NULL /\ b = NULL THEN NULL
    ELSE IF a = NULL THEN 10 * b
    ELSE IF b = NULL THEN 10 * a
    ELSE (10 * (a + b)) \div 2

\* The means of a subject's readings with the device of its own cycle
OwnMeanSbp(row) ==
    IF row["cycle"] = 2017 THEN MeanOfTwo(row["BPXOSY1"], row["BPXOSY2"])
    ELSE MeanOfTwo(row["BPXSY1"], row["BPXSY2"])

OwnMeanDbp(row) ==
    IF row["cycle"] = 2017 THEN MeanOfTwo(row["BPXODI1"], NULL)
    ELSE MeanOfTwo(row["BPXDI1"], NULL)

\* The rows of a cycle of the combined table, as groupby('cycle') hands them
\* to compute_mean_bp
CycleGroup(cycle) ==
    [cols |-> combined.cols, rows |-> SelectRows(combined.rows, "cycle", cycle)]

\* C28: the mean systolic and the mean diastolic pressure of every subject
\* are the means of the subject's non-missing readings of that type with the
\* device of its own cycle, missing when it has none; the columns of the
\* other device and the copies of a column do not change them.  The
\* per-cycle function compute_mean_bp gives the same values.
C28_MeanOfOwnReadings ==
    pc = "mean_bp_done" =>
        /\ \A k \in 1..Len(combined.rows) :
              /\ combined.rows[k]["mean_sbp"] = OwnMeanSbp(combined.rows[k])
              /\ combined.rows[k]["mean_dbp"] = OwnMeanDbp(combined.rows[k])
        /\ main_script = "harmonize" =>
              \A c \in {combined.rows[k]["cycle"] : k \in 1..Len(combined.rows)} :
                  \A j \in 1..Len(CycleGroup(c).rows) :
                      /\ compute_mean_bp(CycleGroup(c), c).mean_sbp[j]
                             = OwnMeanSbp(CycleGroup(c).rows[j])
                      /\ compute_mean_bp(CycleGroup(c), c).mean_dbp[j]
                             = OwnMeanDbp(CycleGroup(c).rows[j])

\* Reached: a combined table of 02_build_cohort.py with the copied columns
\* of the second merge, holding a subject of 2017-2020 with two readings
\* (mean 125.5) and a subject of 2015-2016 with one (mean 141.0)
C28_Witness ==
    /\ pc = "mean_bp_done"
    /\ "BPXOSY1_BPXO" \in combined.cols
    /\ \E k \in 1..Len(combined.rows) :
          /\ combined.rows[k]["cycle"] = 2017
          /\ combined.rows[k]["BPXOSY1"] = 120
          /\ combined.rows[k]["BPXOSY2"] = 131
          /\ combined.rows[k]["mean_sbp"] = 1255
          /\ combined.rows[k]["mean_dbp"] = 800
    /\ \E k \in 1..Len(combined.rows) :
          /\ combined.rows[k]["cycle"] = 2015
          /\ combined.rows[k]["BPXSY1"] = 141
          /\ combined.rows[k]["BPXSY2"] = NULL
          /\ combined.rows[k]["mean_sbp"] = 1410

DerivedStages == {"egfr", "hypertension", "diabetes", "cvd_history", "met_min", "grip_max", "mean_bp"}

DerivedTables(script, stage) ==
    CASE stage = "egfr" -> EgfrTables(script)
      [] stage = "hypertension" -> HypertensionTables
      [] stage = "diabetes" -> DiabetesTables
      [] stage = "cvd_history" -> CvdTables
      [] stage = "met_min" -> (IF script = "harmonize" THEN MetTables ELSE {})
      [] stage = "grip_max" -> (IF script = "harmonize" THEN GripTables ELSE {})
      [] stage = "mean_bp" -> BpTables(script)

\* A table at one of the derived-variable steps of either script
InitDerived ==
    /\ MergeOff
    /\ main_script \in {"build_cohort", "harmonize"}
    /\ pc \in DerivedStages
    /\ ci = 0
    /\ dirs = <<>>
    /\ all_data = <<>>
    /\ combined \in DerivedTables(main_script, pc)
    /\ exported = EmptyDF
    /\ err = "none"
    /\ warned = {}
    /\ mort_files = <<>>
    /\ linked = EmptyDF

NextDerived ==
    \/ ComputeEgfr
    \/ DefineHypertension
    \/ DefineDiabetes
    \/ DefineCvdHistory
    \/ ComputeMetMin
    \/ ComputeMaxGrip
    \/ ComputeMeanBp

SpecDerived == InitDerived /\ [][NextDerived]_vars

-----------------------------------------------------------------------------
(* Quartiles of the index *)

\* The bin edges pd.qcut takes from the index column of the combined table
\* (four times the quartiles)
IndexEdges == Edges(Col(combined, "iri"))

\* C29: in a combined table with quartile labels, a subject with a missing
\* index has no label and every other subject one of the four labels; a
\* subject with a smaller or equal index never has a higher label than
\* another (so equal indices share a label); and a subject whose index
\* equals the k-th cut point has the label k, the lower of the two buckets
\* that meet there.
C29_QuartileOrderAndTies ==
    "iri_quartile" \in combined.cols =>
        \A i \in 1..Len(combined.rows) :
            LET x == combined.rows[i]["iri"]
                q == combined.rows[i]["iri_quartile"]
            IN  /\ (x = NULL) <=> (q = NULL)
                /\ q # NULL => q \in 1..4
                /\ \A j \in 1..Len(combined.rows) :
                      (x # NULL /\ combined.rows[j]["iri"] # NULL
                       /\ x <= combined.rows[j]["iri"])
                          => q <= combined.rows[j]["iri_quartile"]
                /\ \A k \in 1..3 : (x # NULL /\ 4 * x = IndexEdges[k]) => q = k

\* Reached: a subject whose index is the median cut point and who is in the
\* second quartile, a subject above it in a higher quartile, and a subject
\* without an index and without a label
C29_Witness ==
    /\ "iri_quartile" \in combined.cols
    /\ \E i, j, m \in 1..Len(combined.rows) :
          /\ combined.rows[i]["iri"] # NULL
          /\ 4 * combined.rows[i]["iri"] = IndexEdges[2]
          /\ combined.rows[i]["iri_quartile"] = 2
          /\ combined.rows[j]["iri"] # NULL
          /\ combined.rows[j]["iri"] > combined.rows[i]["iri"]
          /\ combined.rows[j]["iri_quartile"] > 2
          /\ combined.rows[m]["iri"] = NULL
          /\ combined.rows[m]["iri_quartile"] = NULL

-----------------------------------------------------------------------------
(* Cycles without a demographic table *)

\* The directory of the i-th cycle read is missing, or its DEMO file is
\* absent or loads as an empty table
NoDemographics(i) ==
    \/ ~dirs[i].exists
    \/ dirs[i].fault.pat = "DEMO"

\* The run raised inside the cycle loop, while processing the last cycle read
StoppedInCycle(i) == pc = "error" /\ combined = EmptyDF /\ i = Len(dirs)

\* C30: a cycle whose directory or DEMO file is missing, or whose DEMO file
\* loads as an empty table, contributes no table to all_data and does not
\* stop the run; main stops with "No data loaded" only when no cycle yielded
\* rows, and then nothing is exported.
C30_EmptyCycleSkipped ==
    /\ \A i \in 1..Len(dirs) :
          NoDemographics(i) =>
              /\ ~StoppedInCycle(i)
              /\ \A t \in 1..Len(all_data) :
                    all_data[t].rows[1]["cycle"] # CyclesOf(main_script)[i]
    /\ pc = "nodata" => (all_data = <<>> /\ exported = EmptyDF /\ linked = EmptyDF)
    /\ exported # EmptyDF => all_data # <<>>

=============================================================================
